---------------------------- MODULE Spec2Model ----------------------------
(* A model of the rummy prototype: the rules-and-scoring engine of game.js  *)
(* (GameState, Player), the melds of meld.js, the deck of deck.js, the      *)
(* upgrade catalog of upgrades.js, the opponent policy of cli/ai.js and the *)
(* handlers and delayed callbacks of game-client.js that drive the engine.  *)
(*                                                                          *)
(* A card is the number suitIndex * 13 + rankIndex (Card.getSortValue), so  *)
(* the fresh deck of Deck.initializeDeck is <<0, 1, ..., 51>>.  Players are *)
(* numbered 1..NumPlayers in the order of config.players; player 1 is the   *)
(* human (Alice), the others are played by SimpleAI.                        *)
EXTENDS Integers, Sequences, FiniteSets, TLC

(***************************************************************************)
(* Configuration (config.json), with the values the reference pages and    *)
(* tooltips of the client document.                                        *)
(***************************************************************************)
NumRanks == 13
NumSuits == 4
NumPlayers == 4
CardsPerPlayer == 7
MaxReshuffles == 2
MinMeldSize == 3
MaxSetSize == 4
MaxRounds == 5

DeckSize == NumRanks * NumSuits
Cards == 0 .. (DeckSize - 1)
Players == 1 .. NumPlayers
HumanPlayer == 1

\* What Array.pop() / Deck.draw() return on an empty array.
Undefined == 0 - 1

RankIndex(c) == c % NumRanks
SuitIndex(c) == c \div NumRanks

(***************************************************************************)
(* Bounds of the model.                                                    *)
(***************************************************************************)
\* Math.random is modelled as a seeded generator; the seeds explored.
NumSeeds == 3
\* Scores grow without bound (the catch-up multiplier is uncapped); play is
\* followed while no player's total exceeds this.
MaxTotalScore == 20000
\* Pending delayed callbacks of one kind (setTimeout) the model keeps.
MaxPending == 2

(***************************************************************************)
(* Sequence helpers (Array.prototype)                                      *)
(***************************************************************************)
Min(a, b) == IF a < b THEN a ELSE b
Max(a, b) == IF a > b THEN a ELSE b

Range(s) == {s[i] : i \in DOMAIN s}

\* s.splice(i, 1)
RemoveAt(s, i) == [k \in 1 .. (Len(s) - 1) |-> IF k < i THEN s[k] ELSE s[k + 1]]

\* s.pop(): the array without its last element
Front(s) == IF Len(s) = 0 THEN s ELSE SubSeq(s, 1, Len(s) - 1)
\* s.pop(): the element returned
Last(s) == IF Len(s) = 0 THEN Undefined ELSE s[Len(s)]

\* s.findIndex(x => x is the card c), 0 when there is none
RECURSIVE FindFrom(_, _, _)
FindFrom(s, c, i) ==
    IF i > Len(s) THEN 0
    ELSE IF s[i] = c THEN i
    ELSE FindFrom(s, c, i + 1)
FindIndex(s, c) == FindFrom(s, c, 1)

\* Array.prototype.sort (stable) of cards by config.ranks.indexOf(rank):
\* each card is inserted after the last card whose rank is not greater.
RECURSIVE InsertByRank(_, _)
InsertByRank(s, x) ==
    IF Len(s) = 0 THEN <<x>>
    ELSE IF RankIndex(Last(s)) <= RankIndex(x) THEN Append(s, x)
    ELSE Append(InsertByRank(Front(s), x), Last(s))

RECURSIVE SortByRankIndex(_)
SortByRankIndex(s) ==
    IF Len(s) <= 1 THEN s
    ELSE InsertByRank(SortByRankIndex(Front(s)), Last(s))

\* Array.prototype.sort (stable) of cards by config.suits.indexOf(suit)
RECURSIVE InsertBySuit(_, _)
InsertBySuit(s, x) ==
    IF Len(s) = 0 THEN <<x>>
    ELSE IF SuitIndex(Last(s)) <= SuitIndex(x) THEN Append(s, x)
    ELSE Append(InsertBySuit(Front(s), x), Last(s))

RECURSIVE SortBySuitIndex(_)
SortBySuitIndex(s) ==
    IF Len(s) <= 1 THEN s
    ELSE InsertBySuit(SortBySuitIndex(Front(s)), Last(s))

RECURSIVE SumSeq(_)
SumSeq(s) == IF Len(s) = 0 THEN 0 ELSE s[Len(s)] + SumSeq(Front(s))

(***************************************************************************)
(* The random source.  Math.random is the environment's; it is modelled as *)
(* a 16-bit linear congruential generator whose seed is an input of the    *)
(* run, so that every run of the model is a run of the program for one     *)
(* outcome of its random draws.                                            *)
(***************************************************************************)
RngModulus == 65536
RngMultiplier == 25173
RngIncrement == 13849

NextRandom(r) == (r * RngMultiplier + RngIncrement) % RngModulus

\* Math.floor(Math.random() * n), where r is the generator's state after the draw
RandomIndex(r, n) == (r * n) \div RngModulus

(***************************************************************************)
(* Numbers.  The multipliers of the program are JavaScript doubles; the    *)
(* model keeps them as exact fractions <<numerator, denominator>> in       *)
(* lowest terms, and Math.round as rounding half up.                       *)
(***************************************************************************)
RECURSIVE Gcd(_, _)
Gcd(a, b) == IF b = 0 THEN a ELSE Gcd(b, a % b)

Frac(n, d) == LET g == Gcd(n, d) IN IF g = 0 THEN <<0, 1>> ELSE <<n \div g, d \div g>>
Whole(n) == <<n, 1>>
\* a * b, each numerator reduced against the other denominator first
FMul(a, b) ==
    LET g1 == Max(Gcd(a[1], b[2]), 1)
        g2 == Max(Gcd(b[1], a[2]), 1)
    IN  Frac((a[1] \div g1) * (b[1] \div g2), (a[2] \div g2) * (b[2] \div g1))
FAdd(a, b) == Frac(a[1] * b[2] + b[1] * a[2], a[2] * b[2])
FGreater(a, b) == a[1] * b[2] > b[1] * a[2]
\* Math.round of a non-negative fraction
MathRound(a) == (a[1] \div a[2]) + (IF 2 * (a[1] % a[2]) >= a[2] THEN 1 ELSE 0)

\* <<q, r>> with x * y = q * m + r and r < m, by halving y
RECURSIVE MulDivMod(_, _, _)
MulDivMod(x, y, m) ==
    LET step(h, add) ==
            <<2 * h[1] + (2 * h[2] + (add % m)) \div m + (add \div m),
              (2 * h[2] + (add % m)) % m>>
    IN  IF y = 0 THEN <<0, 0>>
        ELSE step(MulDivMod(x, y \div 2, m), IF y % 2 = 1 THEN x ELSE 0)

\* Math.round(n * a) of a natural n and a non-negative fraction a
RoundTimes(n, a) ==
    LET rounded(qr) == qr[1] + (IF 2 * qr[2] >= a[2] THEN 1 ELSE 0)
    IN  rounded(MulDivMod(n, a[1], a[2]))

(***************************************************************************)
(* deck.js                                                                 *)
(***************************************************************************)
\* config.cardValues: A = 11, 2..10 face value, J/Q/K = 10
CardValue(c) ==
    LET r == RankIndex(c)
    IN  IF r = 0 THEN 11 ELSE IF r >= 10 THEN 10 ELSE r + 1

\* config.ranks and config.suits as text, a string being the sequence of its
\* characters
RankNames ==
    <<<<"A">>, <<"2">>, <<"3">>, <<"4">>, <<"5">>, <<"6">>, <<"7">>, <<"8">>, <<"9">>,
      <<"1", "0">>, <<"J">>, <<"Q">>, <<"K">>>>
SuitNames == <<"s", "h", "c", "d">>

\* Card.toString
CardToString(c) == RankNames[RankIndex(c) + 1] \o <<SuitNames[SuitIndex(c) + 1]>>

\* String.toLowerCase and String.toUpperCase, character by character
LowerOf(ch) ==
    IF ch = "A" THEN "a" ELSE IF ch = "J" THEN "j" ELSE IF ch = "Q" THEN "q"
    ELSE IF ch = "K" THEN "k" ELSE ch
UpperOf(ch) ==
    IF ch = "a" THEN "A" ELSE IF ch = "j" THEN "J" ELSE IF ch = "q" THEN "Q"
    ELSE IF ch = "k" THEN "K" ELSE ch
ToLowerCase(str) == [k \in DOMAIN str |-> LowerOf(str[k])]
ToUpperCase(str) == [k \in DOMAIN str |-> UpperOf(str[k])]

\* String.trim
RECURSIVE TrimStart(_)
TrimStart(str) ==
    IF Len(str) > 0 /\ Head(str) = " " THEN TrimStart(Tail(str)) ELSE str
RECURSIVE TrimEnd(_)
TrimEnd(str) ==
    IF Len(str) > 0 /\ str[Len(str)] = " " THEN TrimEnd(SubSeq(str, 1, Len(str) - 1))
    ELSE str
Trim(str) == TrimEnd(TrimStart(str))

\* String.split(sep): the pieces between the separators, from the piece cur on
RECURSIVE SplitFrom(_, _, _)
SplitFrom(str, sep, cur) ==
    IF Len(str) = 0 THEN <<cur>>
    ELSE IF Head(str) = sep THEN <<cur>> \o SplitFrom(Tail(str), sep, <<>>)
    ELSE SplitFrom(Tail(str), sep, Append(cur, Head(str)))
Split(str, sep) == SplitFrom(str, sep, <<>>)

\* The index in names of the name equal to str, 0 when there is none
IndexOfName(names, str) ==
    IF \E k \in DOMAIN names : names[k] = str
    THEN CHOOSE k \in DOMAIN names : names[k] = str ELSE 0

\* parseCard(cardString): the match of /^([a2-9]|10|[jqk])([shcd])$/ on the
\* lower-cased string, the rank in upper case; null is Undefined
ParseCard(cardString) ==
    LET normalized == ToLowerCase(cardString)
        rank == ToUpperCase(SubSeq(normalized, 1, Len(normalized) - 1))
        suit == normalized[Len(normalized)]
        matches ==
            /\ Len(normalized) \in {2, 3}
            /\ suit \in {"s", "h", "c", "d"}
            /\ \/ /\ Len(normalized) = 2
                  /\ normalized[1] \in {"a", "2", "3", "4", "5", "6", "7", "8", "9",
                                        "j", "q", "k"}
               \/ /\ Len(normalized) = 3
                  /\ normalized[1] = "1"
                  /\ normalized[2] = "0"
    IN  IF ~matches THEN Undefined
        ELSE IF IndexOfName(RankNames, rank) = 0 \/ IndexOfName(SuitNames, suit) = 0
        THEN Undefined
        ELSE (IndexOfName(SuitNames, suit) - 1) * NumRanks + (IndexOfName(RankNames, rank) - 1)

\* parseCardList(cardString): the cards, or null at the first string that is
\* no card
ParseCardList(cardString) ==
    LET cards == [k \in DOMAIN Split(cardString, "-") |->
                     ParseCard(Trim(Split(cardString, "-")[k]))]
    IN  IF \E k \in DOMAIN cards : cards[k] = Undefined
        THEN [null |-> TRUE, cards |-> <<>>]
        ELSE [null |-> FALSE, cards |-> cards]

\* Deck.initializeDeck: suits outer, ranks inner
NewDeck == [i \in 1 .. DeckSize |-> i - 1]

\* Deck.shuffle (Fisher-Yates), positions k = Len(cards) down to 2; the
\* conditions on cards and r have both evaluated at every step
RECURSIVE ShuffleFrom(_, _, _)
ShuffleFrom(cards, k, r) ==
    IF k <= 1 \/ k > Len(cards) \/ r >= RngModulus THEN [cards |-> cards, rng |-> r]
    ELSE LET r1 == NextRandom(r)
             j  == RandomIndex(r1, k) + 1
         IN  ShuffleFrom([cards EXCEPT ![k] = cards[j], ![j] = cards[k]], k - 1, r1)

Shuffle(cards, r) == ShuffleFrom(cards, Len(cards), r)

(***************************************************************************)
(* meld.js                                                                 *)
(***************************************************************************)
SameRank(cards) == \A i \in DOMAIN cards : RankIndex(cards[i]) = RankIndex(cards[1])
SameSuit(cards) == \A i \in DOMAIN cards : SuitIndex(cards[i]) = SuitIndex(cards[1])

\* An isSet without the upper size limit
IsSetOfAnySize(cards) ==
    /\ Len(cards) >= MinMeldSize
    /\ SameRank(cards)

IsSet(cards) ==
    /\ Len(cards) >= MinMeldSize
    /\ Len(cards) <= MaxSetSize
    /\ SameRank(cards)

\* An isPair that does not compare the ranks
IsPairOfAnyRanks(cards) == Len(cards) = 2

IsPair(cards) ==
    /\ Len(cards) = 2
    /\ RankIndex(cards[1]) = RankIndex(cards[2])

IsRun(cards) ==
    /\ Len(cards) >= MinMeldSize
    /\ SameSuit(cards)
    /\ LET sorted == SortByRankIndex(cards)
       IN  \A i \in 2 .. Len(sorted) :
               RankIndex(sorted[i]) = RankIndex(sorted[i - 1]) + 1

DetermineMeldType(cards) ==
    IF IsSet(cards) THEN "set"
    ELSE IF IsRun(cards) THEN "run"
    ELSE "invalid"

\* new Meld(cards, owner)
NewMeld(cards, owner) ==
    [cards |-> cards, owner |-> owner, type |-> DetermineMeldType(cards),
     layoffCards |-> {}]

IsValid(meld) == meld.type # "invalid"

\* A canLayoff that does not compare the suit on a run
CanLayoffAnySuit(meld, card) ==
    IF meld.type = "set" THEN RankIndex(card) = RankIndex(meld.cards[1])
    ELSE IF meld.type = "run" THEN
        LET idx == {RankIndex(meld.cards[i]) : i \in DOMAIN meld.cards}
            minRank == CHOOSE m \in idx : \A x \in idx : m <= x
            maxRank == CHOOSE m \in idx : \A x \in idx : m >= x
        IN  \/ RankIndex(card) = minRank - 1
            \/ RankIndex(card) = maxRank + 1
    ELSE FALSE

CanLayoff(meld, card) ==
    IF meld.type = "set" THEN RankIndex(card) = RankIndex(meld.cards[1])
    ELSE IF meld.type = "run" THEN
        /\ SuitIndex(card) = SuitIndex(meld.cards[1])
        /\ LET idx == {RankIndex(meld.cards[i]) : i \in DOMAIN meld.cards}
               minRank == CHOOSE m \in idx : \A x \in idx : m <= x
               maxRank == CHOOSE m \in idx : \A x \in idx : m >= x
           IN  \/ RankIndex(card) = minRank - 1
               \/ RankIndex(card) = maxRank + 1
    ELSE FALSE

SortCards(meld) ==
    IF meld.type = "run" THEN [meld EXCEPT !.cards = SortByRankIndex(@)]
    ELSE IF meld.type = "set" THEN [meld EXCEPT !.cards = SortBySuitIndex(@)]
    ELSE meld

\* Array.join(sep)
RECURSIVE Join(_, _)
Join(strs, sep) ==
    IF Len(strs) = 0 THEN <<>>
    ELSE IF Len(strs) = 1 THEN strs[1]
    ELSE strs[1] \o <<sep>> \o Join(Tail(strs), sep)

\* Meld.toString: the cards joined by '-', a laid-off card in brackets
MeldToString(meld) ==
    Join([k \in DOMAIN meld.cards |->
             IF meld.cards[k] \in meld.layoffCards
             THEN <<"[">> \o CardToString(meld.cards[k]) \o <<"]">>
             ELSE CardToString(meld.cards[k])], "-")

\* An addCard that puts the card in the place of the meld's last card
AddCardReplacing(meld, card) ==
    SortCards([meld EXCEPT !.cards = Append(Front(@), card),
                           !.layoffCards = @ \cup {card}])

\* Meld.addCard(card) with isLayoff = true
AddCard(meld, card) ==
    SortCards([meld EXCEPT !.cards = Append(@, card),
                           !.layoffCards = @ \cup {card}])

(***************************************************************************)
(* upgrades.js                                                             *)
(***************************************************************************)
\* UPGRADES, in catalog order
UpgradeIds ==
    <<"wildfire", "face_cards", "combo_master", "recycling_plant", "gemini",
      "evo_scale", "evo_base">>

\* A getUpgrade that finds an entry for every id
IsUpgradeAny(id) == id = id

\* getUpgrade(id) finds an entry
IsUpgrade(id) == \E i \in DOMAIN UpgradeIds : UpgradeIds[i] = id

\* The rank indices of J, Q, K and the value face_cards gives them
FaceRanks == {10, 11, 12}
FaceCardsValue == 20
EvoBaseMod == 10

\* upgrade.apply(player); an entry without a hook leaves the player alone
ApplyHook(id, p) ==
    IF id = "wildfire" THEN [p EXCEPT !.wildfireAvailable = TRUE]
    ELSE IF id = "face_cards" THEN
        [p EXCEPT !.cardValueOverrides =
            [r \in (DOMAIN @) \cup FaceRanks |->
                IF r \in FaceRanks THEN FaceCardsValue ELSE @[r]]]
    ELSE IF id = "recycling_plant" THEN [p EXCEPT !.recyclingPlantBonus = 0]
    ELSE IF id = "gemini" THEN [p EXCEPT !.canMeldPairs = TRUE]
    ELSE IF id = "evo_scale" THEN
        [p EXCEPT !.upgradeMultipliers.all = FMul(@, Frac(3, 2)),
                  !.evoScaleWins = 0, !.evoScaleLosses = 0]
    ELSE IF id = "evo_base" THEN
        [p EXCEPT !.baseMod = @ + EvoBaseMod,
                  !.evoBaseWins = 0, !.evoBaseLosses = 0]
    ELSE p

(***************************************************************************)
(* game.js: Player                                                         *)
(***************************************************************************)
NoOverrides == [r \in {} |-> 0]

\* new Player(name)
NewPlayer ==
    [hand |-> <<>>, melds |-> <<>>, points |-> 0, layoffCount |-> 0,
     carryoverMultiplier |-> Whole(1),
     upgrades |-> <<>>,
     upgradeMultipliers |-> [meld |-> Whole(1), layoff |-> Whole(1), all |-> Whole(1)],
     baseMod |-> 0, cardValueOverrides |-> NoOverrides,
     comboCount |-> 0, pairsMelded |-> 0, canMeldPairs |-> FALSE,
     wildfireAvailable |-> FALSE, recyclingPlantBonus |-> 0,
     evoScaleWins |-> 0, evoScaleLosses |-> 0,
     evoBaseWins |-> 0, evoBaseLosses |-> 0,
     meldCount |-> 0, setCount |-> 0, runCount |-> 0,
     emptiedHandEarly |-> FALSE]

HasUpgrade(p, id) == \E i \in DOMAIN p.upgrades : p.upgrades[i] = id

\* Player.addCard
AddCardToHand(p, card) == [p EXCEPT !.hand = Append(@, card)]

\* Player.removeCard: the first card of that rank and suit, if there is one
RemoveCard(p, card) ==
    LET index == FindIndex(p.hand, card)
    IN  IF index # 0 THEN [p EXCEPT !.hand = RemoveAt(@, index)] ELSE p

\* Player.removeCards
RECURSIVE RemoveCards(_, _)
RemoveCards(p, cards) ==
    IF Len(cards) = 0 THEN p
    ELSE RemoveCards(RemoveCard(p, Head(cards)), Tail(cards))

HasWon(p) == Len(p.hand) = 0

\* Player.getDeadwoodValue
RECURSIVE SumCardValues(_)
SumCardValues(cards) ==
    IF Len(cards) = 0 THEN 0 ELSE CardValue(Head(cards)) + SumCardValues(Tail(cards))
GetDeadwoodValue(p) == SumCardValues(p.hand)

\* A getCardValue that ignores the rank overrides
GetCardValuePlain(p, card) == CardValue(card)

\* Player.getCardValue
GetCardValue(p, card) ==
    IF RankIndex(card) \in DOMAIN p.cardValueOverrides
    THEN p.cardValueOverrides[RankIndex(card)]
    ELSE CardValue(card)

\* A resetRoundState that clears the carryover multiplier
ResetRoundStateClearingCarryover(p) ==
    [p EXCEPT !.hand = <<>>, !.melds = <<>>, !.points = 0, !.layoffCount = 0,
              !.comboCount = 0, !.pairsMelded = 0, !.emptiedHandEarly = FALSE,
              !.meldCount = 0, !.setCount = 0, !.runCount = 0,
              !.carryoverMultiplier = <<1, 1>>,
              !.wildfireAvailable = IF HasUpgrade(p, "wildfire") THEN TRUE ELSE @,
              !.recyclingPlantBonus = IF HasUpgrade(p, "recycling_plant") THEN 0 ELSE @]

\* A resetRoundState that leaves the melds on the table
ResetRoundStateKeepingMelds(p) ==
    [p EXCEPT !.hand = <<>>, !.points = 0, !.layoffCount = 0,
              !.comboCount = 0, !.pairsMelded = 0, !.emptiedHandEarly = FALSE,
              !.meldCount = 0, !.setCount = 0, !.runCount = 0,
              !.wildfireAvailable = IF HasUpgrade(p, "wildfire") THEN TRUE ELSE @,
              !.recyclingPlantBonus = IF HasUpgrade(p, "recycling_plant") THEN 0 ELSE @]

\* Player.resetRoundState
ResetRoundState(p) ==
    [p EXCEPT !.hand = <<>>, !.melds = <<>>, !.points = 0, !.layoffCount = 0,
              !.comboCount = 0, !.pairsMelded = 0, !.emptiedHandEarly = FALSE,
              !.meldCount = 0, !.setCount = 0, !.runCount = 0,
              !.wildfireAvailable = IF HasUpgrade(p, "wildfire") THEN TRUE ELSE @,
              !.recyclingPlantBonus = IF HasUpgrade(p, "recycling_plant") THEN 0 ELSE @]

\* An addUpgrade without the ownership test
AddUpgradeAgain(p, id) == [p EXCEPT !.upgrades = Append(@, id)]

\* Player.addUpgrade
AddUpgrade(p, id) ==
    IF HasUpgrade(p, id) THEN p ELSE [p EXCEPT !.upgrades = Append(@, id)]

(***************************************************************************)
(* game.js: GameState.  An engine command is an operator from the game (and *)
(* the random source where the command draws from it) to the game after    *)
(* the call and the result object the call returns.                        *)
(***************************************************************************)
\* config: action multipliers and round-end bonuses
SetMod == Whole(3)
RunMod == Whole(2)
PairMod == Whole(2)
LayMod == Frac(3, 2)
WinBonus == 30
DeadwoodBonusDivisor == 10
DeadwoodBonusCap == 20
OverflowBonus == 10
LayoffBonusCap == 3
LayoffBonusPerLevel == Frac(1, 10)
SetRunLayBonus == Frac(5, 2)
DoubleRunBonus == Whole(2)
DoubleSetBonus == Whole(3)
HexagramBonus == Whole(2)
CatchupBonusPerDeficit == Frac(1, 200)
ComboBonus == 50
WildfireMult == 5
EvoBaseStep == 5

\* new GameState()
NewGame ==
    [players |-> [i \in Players |-> NewPlayer],
     currentPlayerIndex |-> 0,
     stock |-> NewDeck,
     discardPile |-> <<>>,
     roundNumber |-> 1,
     scoreHistory |-> <<>>,
     reshuffleCount |-> 0,
     phase |-> "draw",
     roundActive |-> FALSE]

\* getCurrentPlayer(): the index into players (1-based)
Current(g) == g.currentPlayerIndex + 1
GetCurrentPlayer(g) == g.players[Current(g)]

\* A getAllMelds that lists the melds of the current player only
GetOwnMeldRefs(g) ==
    [k \in 1 .. Len(g.players[g.currentPlayerIndex + 1].melds) |->
        <<g.currentPlayerIndex + 1, k>>]

\* getAllMelds(): players.flatMap(p => p.melds), as <<player, index in melds>>
RECURSIVE MeldRefsFrom(_, _)
MeldRefsFrom(g, i) ==
    IF i > NumPlayers THEN <<>>
    ELSE [k \in 1 .. Len(g.players[i].melds) |-> <<i, k>>] \o MeldRefsFrom(g, i + 1)
GetAllMeldRefs(g) == MeldRefsFrom(g, 1)
MeldAt(g, ref) == g.players[ref[1]].melds[ref[2]]
GetAllMelds(g) == [k \in DOMAIN GetAllMeldRefs(g) |-> MeldAt(g, GetAllMeldRefs(g)[k])]

\* The base addend of calculateMeldScore and calculateLayoffScore
TotalBaseMod(p) ==
    p.baseMod
    + (IF HasUpgrade(p, "recycling_plant") THEN p.recyclingPlantBonus ELSE 0)
    + (IF HasUpgrade(p, "evo_base")
       THEN (p.evoBaseWins + p.evoBaseLosses) * EvoBaseStep ELSE 0)

\* The evo_scale factor (1 + (wins + losses) * 0.5)
EvoScaleFactor(p) ==
    IF HasUpgrade(p, "evo_scale")
    THEN Frac(2 + p.evoScaleWins + p.evoScaleLosses, 2)
    ELSE Whole(1)

RECURSIVE SumPlayerValues(_, _)
SumPlayerValues(p, cards) ==
    IF Len(cards) = 0 THEN 0
    ELSE GetCardValue(p, Head(cards)) + SumPlayerValues(p, Tail(cards))

\* A calculateMeldScore that leaves wildfire available
CalculateMeldScoreKeepingWildfire(meld, p) ==
    LET cardPoints == SumPlayerValues(p, meld.cards)
        totalBaseMod == TotalBaseMod(p)
        basePoints == cardPoints + totalBaseMod
        actionMult == IF IsPair(meld.cards) THEN PairMod
                      ELSE IF meld.type = "set" THEN SetMod
                      ELSE RunMod
        wildfire == HasUpgrade(p, "wildfire") /\ p.wildfireAvailable
        upgradeMult ==
            FMul(FMul(FMul(p.upgradeMultipliers.meld, p.upgradeMultipliers.all),
                      IF wildfire THEN Whole(WildfireMult) ELSE Whole(1)),
                 EvoScaleFactor(p))
    IN  [player |-> p,
         baseScore |-> basePoints - totalBaseMod,
         baseMod |-> totalBaseMod,
         modifier |-> actionMult,
         upgradeMult |-> upgradeMult,
         finalScore |-> MathRound(FMul(FMul(Whole(basePoints), actionMult), upgradeMult))]

\* calculateMeldScore(meld, player): the breakdown, and the player with
\* wildfire used up when it applied
CalculateMeldScore(meld, p) ==
    LET cardPoints == SumPlayerValues(p, meld.cards)
        totalBaseMod == TotalBaseMod(p)
        basePoints == cardPoints + totalBaseMod
        actionMult == IF IsPair(meld.cards) THEN PairMod
                      ELSE IF meld.type = "set" THEN SetMod
                      ELSE RunMod
        wildfire == HasUpgrade(p, "wildfire") /\ p.wildfireAvailable
        upgradeMult ==
            FMul(FMul(FMul(p.upgradeMultipliers.meld, p.upgradeMultipliers.all),
                      IF wildfire THEN Whole(WildfireMult) ELSE Whole(1)),
                 EvoScaleFactor(p))
    IN  [player |-> IF wildfire THEN [p EXCEPT !.wildfireAvailable = FALSE] ELSE p,
         baseScore |-> basePoints - totalBaseMod,
         baseMod |-> totalBaseMod,
         modifier |-> actionMult,
         upgradeMult |-> upgradeMult,
         finalScore |-> MathRound(FMul(FMul(Whole(basePoints), actionMult), upgradeMult))]

\* calculateLayoffScore(card, player)
CalculateLayoffScore(card, p) ==
    LET totalBaseMod == TotalBaseMod(p)
        basePoints == GetCardValue(p, card) + totalBaseMod
        upgradeMult ==
            FMul(FMul(p.upgradeMultipliers.layoff, p.upgradeMultipliers.all),
                 EvoScaleFactor(p))
    IN  [baseScore |-> GetCardValue(p, card),
         baseMod |-> totalBaseMod,
         modifier |-> LayMod,
         upgradeMult |-> upgradeMult,
         finalScore |-> MathRound(FMul(FMul(Whole(basePoints), LayMod), upgradeMult))]

\* A combo step that pays the bonus to owners and non-owners alike
ComboStepForAll(p) ==
    LET q == [p EXCEPT !.comboCount = @ + 1]
        bonus == IF q.comboCount % 3 = 0
                 THEN MathRound(FMul(Whole(ComboBonus), q.upgradeMultipliers.all))
                 ELSE 0
    IN  [player |-> [q EXCEPT !.points = @ + bonus], comboBonus |-> bonus]

\* The combo_master step shared by createMeld and layoff: comboCount++, and
\* the flat bonus on every third action of an owner
ComboStep(p) ==
    LET q == [p EXCEPT !.comboCount = @ + 1]
        bonus == IF HasUpgrade(q, "combo_master") /\ q.comboCount % 3 = 0
                 THEN MathRound(FMul(Whole(ComboBonus), q.upgradeMultipliers.all))
                 ELSE 0
    IN  [player |-> [q EXCEPT !.points = @ + bonus], comboBonus |-> bonus]

\* A closing check that never records the early win
MarkEarlyWinNever(p) == p

\* The closing check of createMeld and layoff
MarkEarlyWin(p) == IF HasWon(p) THEN [p EXCEPT !.emptiedHandEarly = TRUE] ELSE p

\* Deal: cardsPerPlayer passes over the players, each drawing the stock's last card
RECURSIVE Deal(_, _)
Deal(g, n) ==
    IF n = 0 \/ Len(g.stock) = 0 THEN g
    ELSE LET i == ((CardsPerPlayer * NumPlayers - n) % NumPlayers) + 1
         IN  Deal([g EXCEPT !.players[i] = AddCardToHand(@, Last(g.stock)),
                            !.stock = Front(@)], n - 1)

\* startNewRound()
StartNewRound(g, r) ==
    LET dealt(g2, r1) ==
            [game |-> [g2 EXCEPT !.discardPile = Append(@, Last(g2.stock)),
                                 !.stock = Front(@),
                                 !.roundActive = TRUE],
             rng |-> r1]
        shuffled(sh) ==
            dealt(Deal([g EXCEPT !.players = [i \in Players |-> ResetRoundState(g.players[i])],
                                 !.stock = sh.cards,
                                 !.discardPile = <<>>,
                                 !.reshuffleCount = 0,
                                 !.currentPlayerIndex = 0,
                                 !.phase = "draw"],
                       CardsPerPlayer * NumPlayers),
                  sh.rng)
    IN  shuffled(Shuffle(NewDeck, r))

\* A reshuffle whose limit is one too high
ReshuffleUnbounded(g, r) ==
    LET shuffled(sh) ==
            [game |-> [g EXCEPT !.reshuffleCount = @ + 1,
                                !.stock = Front(sh.cards),
                                !.discardPile = <<Last(sh.cards)>>],
             rng |-> sh.rng, success |-> TRUE, stalemate |-> FALSE]
    IN  IF g.reshuffleCount > MaxReshuffles
        THEN [game |-> g, rng |-> r, success |-> FALSE, stalemate |-> TRUE]
        ELSE shuffled(Shuffle(Front(g.discardPile), r))

\* A reshuffle that counts the attempt before it checks the limit
ReshuffleCountingFirst(g, r) ==
    LET shuffled(sh) ==
            [game |-> [g EXCEPT !.reshuffleCount = @ + 1,
                                !.stock = Front(sh.cards),
                                !.discardPile = <<Last(sh.cards)>>],
             rng |-> sh.rng, success |-> TRUE, stalemate |-> FALSE]
    IN  IF g.reshuffleCount >= MaxReshuffles
        THEN [game |-> [g EXCEPT !.reshuffleCount = @ + 1], rng |-> r,
              success |-> FALSE, stalemate |-> TRUE]
        ELSE shuffled(Shuffle(Front(g.discardPile), r))

\* A reshuffle that does not count itself
ReshuffleNotCounting(g, r) ==
    LET shuffled(sh) ==
            [game |-> [g EXCEPT !.stock = Front(sh.cards),
                                !.discardPile = <<Last(sh.cards)>>],
             rng |-> sh.rng, success |-> TRUE, stalemate |-> FALSE]
    IN  IF g.reshuffleCount >= MaxReshuffles
        THEN [game |-> g, rng |-> r, success |-> FALSE, stalemate |-> TRUE]
        ELSE shuffled(Shuffle(Front(g.discardPile), r))

\* reshuffle()
Reshuffle(g, r) ==
    LET shuffled(sh) ==
            [game |-> [g EXCEPT !.reshuffleCount = @ + 1,
                                !.stock = Front(sh.cards),
                                !.discardPile = <<Last(sh.cards)>>],
             rng |-> sh.rng, success |-> TRUE, stalemate |-> FALSE]
    IN  IF g.reshuffleCount >= MaxReshuffles
        THEN [game |-> g, rng |-> r, success |-> FALSE, stalemate |-> TRUE]
        ELSE shuffled(Shuffle(Front(g.discardPile), r))

\* drawFromStock()
DrawFromStock(g, r) ==
    LET draw(g1, r1) ==
            IF Len(g1.stock) = 0
            THEN [game |-> g1, rng |-> r1, card |-> Undefined, stalemate |-> TRUE]
            ELSE [game |-> [g1 EXCEPT !.players[Current(g1)] =
                                          AddCardToHand(@, Last(g1.stock)),
                                      !.stock = Front(@)],
                  rng |-> r1, card |-> Last(g1.stock), stalemate |-> FALSE]
        reshuffled(rs) ==
            IF rs.stalemate
            THEN [game |-> rs.game, rng |-> rs.rng, card |-> Undefined, stalemate |-> TRUE]
            ELSE draw(rs.game, rs.rng)
    IN  IF Len(g.stock) = 0 THEN reshuffled(Reshuffle(g, r)) ELSE draw(g, r)

\* drawFromDiscard(); card is Undefined for the null result
DrawFromDiscard(g) ==
    IF Len(g.discardPile) = 0 THEN [game |-> g, card |-> Undefined]
    ELSE [game |-> [g EXCEPT !.players[Current(g)] = AddCardToHand(@, Last(g.discardPile)),
                             !.discardPile = Front(@)],
          card |-> Last(g.discardPile)]

\* A discard that records an emptied hand as an early win
DiscardMarkingEarly(g, card) ==
    LET removed(p1) ==
            IF HasUpgrade(p1, "recycling_plant")
            THEN [p1 EXCEPT !.recyclingPlantBonus = @ + 1] ELSE p1
        done(p2) ==
            [game |-> [g EXCEPT !.players[Current(g)] = MarkEarlyWin(p2),
                                !.discardPile = Append(@, card)],
             playerWon |-> HasWon(p2)]
    IN  done(removed(RemoveCard(GetCurrentPlayer(g), card)))

\* discard(card)
Discard(g, card) ==
    LET removed(p1) ==
            IF HasUpgrade(p1, "recycling_plant")
            THEN [p1 EXCEPT !.recyclingPlantBonus = @ + 1] ELSE p1
        done(p2) ==
            [game |-> [g EXCEPT !.players[Current(g)] = p2,
                                !.discardPile = Append(@, card)],
             playerWon |-> HasWon(p2)]
    IN  done(removed(RemoveCard(GetCurrentPlayer(g), card)))

\* createMeld(cards)
CreateMeld(g, cards) ==
    LET meld == NewMeld(cards, Current(g))
        done(p4, finalScore, comboBonus) ==
            [game |-> [g EXCEPT !.players[Current(g)] = p4],
             success |-> TRUE, playerWon |-> HasWon(p4),
             finalScore |-> finalScore, comboBonus |-> comboBonus]
        combo(sb, cs) == done(MarkEarlyWin(cs.player), sb.finalScore, cs.comboBonus)
        scored(sb) == combo(sb, ComboStep([sb.player EXCEPT !.points = @ + sb.finalScore]))
        removed(p1) ==
            scored(CalculateMeldScore(meld,
                [p1 EXCEPT !.melds = Append(@, meld),
                           !.meldCount = @ + 1,
                           !.pairsMelded = IF IsPair(cards) THEN @ + 1 ELSE @,
                           !.setCount = IF ~IsPair(cards) /\ meld.type = "set"
                                        THEN @ + 1 ELSE @,
                           !.runCount = IF ~IsPair(cards) /\ meld.type = "run"
                                        THEN @ + 1 ELSE @]))
    IN  IF ~IsValid(meld) /\ ~(IsPair(cards) /\ GetCurrentPlayer(g).canMeldPairs)
        THEN [game |-> g, success |-> FALSE, playerWon |-> FALSE, finalScore |-> 0,
              comboBonus |-> 0]
        ELSE removed(RemoveCards(GetCurrentPlayer(g), cards))

\* layoff(card, meldIndex), meldIndex counted from 0 as in the code
Layoff(g, card, meldIndex) ==
    LET failure == [game |-> g, success |-> FALSE, playerWon |-> FALSE,
                    finalScore |-> 0, comboBonus |-> 0]
        done(g2, p4, finalScore, comboBonus) ==
            [game |-> [g2 EXCEPT !.players[Current(g)] = p4],
             success |-> TRUE, playerWon |-> HasWon(p4),
             finalScore |-> finalScore, comboBonus |-> comboBonus]
        combo(g2, sb, cs) == done(g2, MarkEarlyWin(cs.player), sb.finalScore, cs.comboBonus)
        scored(g2, p2, sb) ==
            combo(g2, sb, ComboStep([p2 EXCEPT !.points = @ + sb.finalScore,
                                               !.layoffCount = @ + 1]))
        added(g2) ==
            scored(g2, GetCurrentPlayer(g2), CalculateLayoffScore(card, GetCurrentPlayer(g2)))
        removed(g1, ref) ==
            added([g1 EXCEPT !.players[ref[1]].melds[ref[2]] = AddCard(@, card)])
        accept(ref) ==
            IF ~CanLayoff(MeldAt(g, ref), card) THEN failure
            ELSE removed([g EXCEPT !.players[Current(g)] = RemoveCard(@, card)], ref)
    IN  IF meldIndex < 0 \/ meldIndex >= Len(GetAllMeldRefs(g)) THEN failure
        ELSE accept(GetAllMeldRefs(g)[meldIndex + 1])

\* A turn order that skips a player
NextPlayerSkipping(g) ==
    [g EXCEPT !.currentPlayerIndex = (@ + 2) % NumPlayers, !.phase = "draw"]

\* nextPlayer()
NextPlayer(g) ==
    [g EXCEPT !.currentPlayerIndex = (@ + 1) % NumPlayers, !.phase = "draw"]

(***************************************************************************)
(* game.js: round-end settlement                                           *)
(***************************************************************************)
\* A total that counts the last round only
TotalOfLastRound(history, i) ==
    IF Len(history) = 0 THEN 0 ELSE history[Len(history)].scores[i]

\* getTotalScores(): per player, the sum over the score history
RECURSIVE TotalOf(_, _)
TotalOf(history, i) ==
    IF Len(history) = 0 THEN 0
    ELSE history[Len(history)].scores[i] + TotalOf(Front(history), i)
GetTotalScores(g) == [i \in Players |-> TotalOf(g.scoreHistory, i)]

\* Math.max(...Object.values(totals))
MaxOf(f) == CHOOSE m \in {f[i] : i \in DOMAIN f} : \A i \in DOMAIN f : f[i] <= m

\* The melds of refs that accept the card, in getAllMelds order
RECURSIVE ValidRefs(_, _, _)
ValidRefs(g, refs, card) ==
    IF Len(refs) = 0 THEN <<>>
    ELSE (IF CanLayoff(MeldAt(g, Head(refs)), card) THEN <<Head(refs)>> ELSE <<>>)
         \o ValidRefs(g, Tail(refs), card)

\* autoLayoffDeadwood(): the cards of handCopy of player i, in order
RECURSIVE AutoLayoffCards(_, _, _, _, _, _)
AutoLayoffCards(g, r, i, refs, cards, log) ==
    LET scored(g2, r1, card, ref, sb) ==
            AutoLayoffCards([g2 EXCEPT !.players[i].points = @ + sb.finalScore,
                                       !.players[i].layoffCount = @ + 1],
                            r1, i, refs, Tail(cards),
                            Append(log, [player |-> i, card |-> card,
                                         meldOwner |-> MeldAt(g, ref).owner,
                                         score |-> sb.finalScore]))
        moved(g2, r1, card, ref) ==
            scored(g2, r1, card, ref, CalculateLayoffScore(card, g2.players[i]))
        chosen(r1, card, ref) ==
            moved([g EXCEPT !.players[i] = RemoveCard(@, card),
                            !.players[ref[1]].melds[ref[2]] = AddCard(@, card)],
                  r1, card, ref)
        choose(r1, card, valid) ==
            IF Len(valid) = 0
            THEN AutoLayoffCards(g, r, i, refs, Tail(cards), log)
            ELSE chosen(r1, card, valid[RandomIndex(r1, Len(valid)) + 1])
    IN  IF Len(cards) = 0 THEN [game |-> g, rng |-> r, log |-> log]
        ELSE choose(NextRandom(r), Head(cards), ValidRefs(g, refs, Head(cards)))

\* autoLayoffDeadwood(): the players in order, from player i on
RECURSIVE AutoLayoffFrom(_, _, _, _)
AutoLayoffFrom(g, r, i, log) ==
    LET next(res) == AutoLayoffFrom(res.game, res.rng, i + 1, res.log)
    IN  IF i > NumPlayers THEN [game |-> g, rng |-> r, log |-> log]
        ELSE IF Len(g.players[i].hand) = 0 \/ Len(GetAllMeldRefs(g)) = 0
        THEN AutoLayoffFrom(g, r, i + 1, log)
        ELSE next(AutoLayoffCards(g, r, i, GetAllMeldRefs(g), g.players[i].hand, log))

AutoLayoffDeadwood(g, r) == AutoLayoffFrom(g, r, 1, <<>>)

\* calculateRoundEndBonuses(player, winner, totalDeadwood); isWinner is
\* player === winner
CalculateRoundEndBonuses(p, isWinner, totalDeadwood) ==
    LET bonus(name, value) == [name |-> name, value |-> value]
        deadwoodBonus ==
            Min(MathRound(Frac(totalDeadwood, DeadwoodBonusDivisor)), DeadwoodBonusCap)
        cappedLayoffCount == Min(p.layoffCount, LayoffBonusCap)
    IN  [flatBonuses |->
            (IF isWinner
             THEN <<bonus("Win Bonus", WinBonus), bonus("Deadwood Bonus", deadwoodBonus)>>
             ELSE <<>>)
            \o (IF p.emptiedHandEarly
                THEN <<bonus("Overflow Bonus", OverflowBonus)>> ELSE <<>>),
         multipliers |->
            (IF p.layoffCount > 0
             THEN <<bonus("Layoff Bonus",
                          FAdd(Whole(1), FMul(Whole(cappedLayoffCount), LayoffBonusPerLevel)))>>
             ELSE <<>>)
            \o (IF p.meldCount > 0 \/ p.layoffCount > 0
                THEN <<bonus("Alchemist", Frac(10 + 5 * p.meldCount + p.layoffCount, 10))>>
                ELSE <<>>)
            \o (IF p.setCount > 0 /\ p.runCount > 0
                THEN <<bonus("Hut Hike", SetRunLayBonus)>> ELSE <<>>)
            \o (IF p.runCount >= 2 THEN <<bonus("Marathon", DoubleRunBonus)>> ELSE <<>>)
            \o (IF p.setCount >= 2 THEN <<bonus("Slot Machine", DoubleSetBonus)>> ELSE <<>>)
            \o (IF p.pairsMelded >= 3 THEN <<bonus("Hexagram", HexagramBonus)>> ELSE <<>>)
            \o (IF FGreater(p.carryoverMultiplier, Whole(1))
                THEN <<bonus("Catchup Bonus", p.carryoverMultiplier)>> ELSE <<>>)]

\* A sum of flat bonuses that counts only the first one
SumValuesFirst(bs) == IF Len(bs) = 0 THEN 0 ELSE Head(bs).value

RECURSIVE SumValues(_)
SumValues(bs) == IF Len(bs) = 0 THEN 0 ELSE Head(bs).value + SumValues(Tail(bs))

RECURSIVE ProductValues(_)
ProductValues(bs) ==
    IF Len(bs) = 0 THEN Whole(1) ELSE FMul(Head(bs).value, ProductValues(Tail(bs)))

\* The catch-up multiplier set from the totals: 1 + deficit * rate when behind
CatchupFor(totals, i) ==
    LET totalDeficit == MaxOf(totals) - totals[i]
    IN  IF totalDeficit > 0
        THEN FAdd(Whole(1), FMul(Whole(totalDeficit), CatchupBonusPerDeficit))
        ELSE Whole(1)

\* A tracking that counts every settlement as a loss
TrackEvoAsLoss(p, isWinner) ==
    [p EXCEPT !.evoScaleLosses = IF HasUpgrade(p, "evo_scale") THEN @ + 1 ELSE @,
              !.evoBaseLosses = IF HasUpgrade(p, "evo_base") THEN @ + 1 ELSE @]

\* The evolving-upgrade counters of a player at settlement
TrackEvo(p, isWinner) ==
    IF isWinner
    THEN [p EXCEPT !.evoScaleWins = IF HasUpgrade(p, "evo_scale") THEN @ + 1 ELSE @,
                   !.evoBaseWins = IF HasUpgrade(p, "evo_base") THEN @ + 1 ELSE @]
    ELSE [p EXCEPT !.evoScaleLosses = IF HasUpgrade(p, "evo_scale") THEN @ + 1 ELSE @,
                   !.evoBaseLosses = IF HasUpgrade(p, "evo_base") THEN @ + 1 ELSE @]

\* The RECYCLED WOOD pass of endRound
RecycledWoodStep == 5
RecycledWood(p) ==
    IF HasUpgrade(p, "recycled_wood") /\ Len(p.hand) > 0
    THEN [p EXCEPT !.points = @ + Len(p.hand) * RecycledWoodStep, !.hand = <<>>]
    ELSE p

\* The deadwood of the players other than the winner
TotalDeadwood(g, winner) ==
    SumSeq([i \in Players |-> IF i = winner THEN 0 ELSE GetDeadwoodValue(g.players[i])])

\* The players after the settlement loop: the catch-up multiplier from the
\* totals read inside the loop, before this round's record is pushed, and
\* the evolving-upgrade counters
SettledPlayers(g, totalScores, winner) ==
    [i \in Players |->
        TrackEvo([g.players[i] EXCEPT !.carryoverMultiplier = CatchupFor(totalScores, i)],
                 i = winner)]

\* endRound()
EndRound(g, r) ==
    LET winner == Current(g)
        settled(al, g1, bonuses, totalMultiplier, scores) ==
            [game |-> [g1 EXCEPT !.players = SettledPlayers(g1, GetTotalScores(g1), winner),
                                 !.scoreHistory = Append(@,
                                     [round |-> g.roundNumber, scores |-> scores,
                                      winner |-> winner, stalemate |-> FALSE]),
                                 !.roundNumber = @ + 1,
                                 !.roundActive = FALSE],
             rng |-> al.rng, scores |-> scores,
             bonusDetails |->
                 [i \in Players |->
                     [roundPoints |-> g1.players[i].points,
                      flatBonuses |-> bonuses[i].flatBonuses,
                      multipliers |-> bonuses[i].multipliers,
                      totalMultiplier |-> totalMultiplier[i],
                      finalScore |-> scores[i],
                      deadwood |-> GetDeadwoodValue(g1.players[i])]],
             autoLayoffLog |-> al.log]
        multiplied(al, g1, bonuses, totalMultiplier) ==
            settled(al, g1, bonuses, totalMultiplier,
                    [i \in Players |->
                        RoundTimes(g1.players[i].points + SumValues(bonuses[i].flatBonuses),
                                   totalMultiplier[i])])
        rewarded(al, g1, bonuses) ==
            multiplied(al, g1, bonuses,
                       [i \in Players |-> ProductValues(bonuses[i].multipliers)])
        recycled(al, g1) ==
            rewarded(al, g1,
                     [i \in Players |->
                         CalculateRoundEndBonuses(g1.players[i], i = winner,
                                                  TotalDeadwood(g1, winner))])
        laidOff(al) ==
            recycled(al, [al.game EXCEPT
                             !.players = [i \in Players |-> RecycledWood(al.game.players[i])]])
    IN  laidOff(AutoLayoffDeadwood(g, r))

\* A stalemate settlement that pays the flat bonuses, the player to move as winner
EndRoundStalemateWithFlat(g) ==
    LET settled(bonuses, scores) ==
            [game |-> [g EXCEPT !.players = SettledPlayers(g, GetTotalScores(g), 0),
                                !.scoreHistory = Append(@,
                                    [round |-> g.roundNumber, scores |-> scores,
                                     winner |-> 0, stalemate |-> TRUE]),
                                !.roundNumber = @ + 1,
                                !.roundActive = FALSE],
             scores |-> scores,
             bonusDetails |->
                 [i \in Players |->
                     [roundPoints |-> g.players[i].points,
                      flatBonuses |-> bonuses[i].flatBonuses,
                      multipliers |-> bonuses[i].multipliers,
                      totalMultiplier |-> ProductValues(bonuses[i].multipliers),
                      finalScore |-> scores[i],
                      deadwood |-> 0]]]
        rewarded(bonuses) ==
            settled(bonuses,
                    [i \in Players |->
                        RoundTimes(g.players[i].points + SumValues(bonuses[i].flatBonuses),
                                   ProductValues(bonuses[i].multipliers))])
    IN  rewarded([i \in Players |->
                     CalculateRoundEndBonuses(g.players[i], i = Current(g), 0)])

\* endRoundStalemate()
EndRoundStalemate(g) ==
    LET settled(bonuses, totalMultiplier, scores) ==
            [game |-> [g EXCEPT !.players = SettledPlayers(g, GetTotalScores(g), 0),
                                !.scoreHistory = Append(@,
                                    [round |-> g.roundNumber, scores |-> scores,
                                     winner |-> 0, stalemate |-> TRUE]),
                                !.roundNumber = @ + 1,
                                !.roundActive = FALSE],
             scores |-> scores,
             bonusDetails |->
                 [i \in Players |->
                     [roundPoints |-> g.players[i].points,
                      flatBonuses |-> <<>>,
                      multipliers |-> bonuses[i].multipliers,
                      totalMultiplier |-> totalMultiplier[i],
                      finalScore |-> scores[i],
                      deadwood |-> 0]]]
        multiplied(bonuses, totalMultiplier) ==
            settled(bonuses, totalMultiplier,
                    [i \in Players |-> RoundTimes(g.players[i].points, totalMultiplier[i])])
        rewarded(bonuses) ==
            multiplied(bonuses, [i \in Players |-> ProductValues(bonuses[i].multipliers)])
    IN  rewarded([i \in Players |-> CalculateRoundEndBonuses(g.players[i], FALSE, 0)])

\* applyUpgrade(player, upgradeId)
ApplyUpgrade(g, i, id) ==
    IF ~IsUpgrade(id) THEN [game |-> g, ok |-> FALSE]
    ELSE [game |-> [g EXCEPT !.players[i] = ApplyHook(id, AddUpgrade(@, id))],
          ok |-> TRUE]

\* A getRandomUpgrades that draws from the whole catalog
GetRandomUpgradesOfAll(count, excludeIds, r) ==
    LET sorted(sh) == [upgrades |-> SubSeq(sh.cards, 1, Min(count, Len(sh.cards))),
                       rng |-> sh.rng]
    IN  sorted(Shuffle(UpgradeIds, r))

\* getRandomUpgrades(count, excludeIds).  The order a sort with a random
\* comparator leaves is the engine's choice; the model draws the permutation
\* from the random source.
GetRandomUpgrades(count, excludeIds, r) ==
    LET sorted(sh) == [upgrades |-> SubSeq(sh.cards, 1, Min(count, Len(sh.cards))),
                       rng |-> sh.rng]
    IN  sorted(Shuffle(SelectSeq(UpgradeIds,
                           LAMBDA id : \A k \in DOMAIN excludeIds : excludeIds[k] # id),
                       r))

(***************************************************************************)
(* cli/ai.js: SimpleAI, the meld finder                                    *)
(***************************************************************************)
\* The scan of findAllRuns over the rank-sorted cards of one suit
RECURSIVE ScanRuns(_, _, _, _)
ScanRuns(sorted, i, currentRun, runs) ==
    LET close(run) == IF Len(run) >= MinMeldSize /\ IsValid(NewMeld(run, 0))
                      THEN <<run>> ELSE <<>>
    IN  IF i > Len(sorted) THEN runs \o close(currentRun)
        ELSE IF RankIndex(sorted[i]) = RankIndex(sorted[i - 1]) + 1
        THEN ScanRuns(sorted, i + 1, Append(currentRun, sorted[i]), runs)
        ELSE ScanRuns(sorted, i + 1, <<sorted[i]>>, runs \o close(currentRun))

RECURSIVE RunsFromSuit(_, _)
RunsFromSuit(hand, suit) ==
    IF suit >= NumSuits THEN <<>>
    ELSE LET cardsInSuit == SelectSeq(hand, LAMBDA c : SuitIndex(c) = suit)
             sorted == SortByRankIndex(cardsInSuit)
         IN  (IF Len(cardsInSuit) < MinMeldSize THEN <<>>
              ELSE ScanRuns(sorted, 2, <<sorted[1]>>, <<>>))
             \o RunsFromSuit(hand, suit + 1)

\* findAllRuns(hand): the card lists of the melds found
FindAllRuns(hand) == RunsFromSuit(hand, 0)

RECURSIVE SetsFromRank(_, _)
SetsFromRank(hand, rank) ==
    IF rank >= NumRanks THEN <<>>
    ELSE LET cardsOfRank == SelectSeq(hand, LAMBDA c : RankIndex(c) = rank)
         IN  (IF /\ Len(cardsOfRank) >= MinMeldSize
                 /\ Len(cardsOfRank) \in {3, 4}
                 /\ IsValid(NewMeld(cardsOfRank, 0))
              THEN <<cardsOfRank>> ELSE <<>>)
             \o SetsFromRank(hand, rank + 1)

\* findAllSets(hand)
FindAllSets(hand) == SetsFromRank(hand, 0)

\* A finder that returns the runs only
FindAllPotentialMeldsRunsOnly(hand) == FindAllRuns(hand)

\* findAllPotentialMelds(hand)
FindAllPotentialMelds(hand) == FindAllRuns(hand) \o FindAllSets(hand)

(***************************************************************************)
(* game-client.js: GameClient.playAITurn, as a function of the game        *)
(***************************************************************************)
\* The createMeld loop over the melds found
RECURSIVE AIMelds(_, _)
AIMelds(g, melds) ==
    LET after(res) ==
            IF res.success /\ res.playerWon THEN [game |-> res.game, won |-> TRUE]
            ELSE AIMelds(res.game, Tail(melds))
    IN  IF Len(melds) = 0 THEN [game |-> g, won |-> FALSE]
        ELSE after(CreateMeld(g, Head(melds)))

\* The inner layoff loop: one card of handCopy against allMelds[index..n-1]
RECURSIVE AILayoffCard(_, _, _, _)
AILayoffCard(g, card, index, n) ==
    LET after(res) ==
            IF res.success /\ res.playerWon THEN [game |-> res.game, won |-> TRUE]
            ELSE AILayoffCard(res.game, card, index + 1, n)
    IN  IF index >= n THEN [game |-> g, won |-> FALSE]
        ELSE IF /\ CanLayoff(MeldAt(g, GetAllMeldRefs(g)[index + 1]), card)
                /\ card \in Range(GetCurrentPlayer(g).hand)
        THEN after(Layoff(g, card, index))
        ELSE AILayoffCard(g, card, index + 1, n)

\* The outer layoff loop over handCopy
RECURSIVE AILayoffs(_, _, _)
AILayoffs(g, handCopy, n) ==
    LET after(res) == IF res.won THEN res ELSE AILayoffs(res.game, Tail(handCopy), n)
    IN  IF Len(handCopy) = 0 THEN [game |-> g, won |-> FALSE]
        ELSE after(AILayoffCard(g, Head(handCopy), 0, n))

\* playAITurn(): the game and random source after the handler, how it left
\* ("stalemate", "meld", "layoff", "discard" for the three wins, "next"), and
\* the cards it drew and discarded
PlayAITurnOn(g, r) ==
    LET none == Undefined
        \* the random discard and the turn's end
        discarded(dr, r1, randomCard, ds) ==
            IF ds.playerWon
            THEN [game |-> ds.game, rng |-> r1, exit |-> "discard",
                  drew |-> dr.card, discarded |-> randomCard]
            ELSE [game |-> NextPlayer(ds.game), rng |-> r1, exit |-> "next",
                  drew |-> dr.card, discarded |-> randomCard]
        pick(dr, g3, r1, randomCard) == discarded(dr, r1, randomCard, Discard(g3, randomCard))
        discarding(dr, g3, hand, r1) ==
            IF Len(hand) = 0
            THEN [game |-> NextPlayer(g3), rng |-> dr.rng, exit |-> "next",
                  drew |-> dr.card, discarded |-> none]
            ELSE pick(dr, g3, r1, hand[RandomIndex(r1, Len(hand)) + 1])
        \* after the layoff loop
        laidOff(dr, ls) ==
            IF ls.won
            THEN [game |-> ls.game, rng |-> dr.rng, exit |-> "layoff",
                  drew |-> dr.card, discarded |-> none]
            ELSE discarding(dr, ls.game, GetCurrentPlayer(ls.game).hand, NextRandom(dr.rng))
        \* after the meld loop
        melded(dr, ms) ==
            IF ms.won
            THEN [game |-> ms.game, rng |-> dr.rng, exit |-> "meld",
                  drew |-> dr.card, discarded |-> none]
            ELSE laidOff(dr, AILayoffs(ms.game, GetCurrentPlayer(ms.game).hand,
                                       Len(GetAllMeldRefs(ms.game))))
        \* after the draw
        drawn(dr) ==
            IF dr.stalemate \/ dr.card = Undefined
            THEN [game |-> dr.game, rng |-> dr.rng, exit |-> "stalemate",
                  drew |-> none, discarded |-> none]
            ELSE melded(dr, AIMelds(dr.game,
                                    FindAllPotentialMelds(GetCurrentPlayer(dr.game).hand)))
    IN  drawn(DrawFromStock(g, r))

(***************************************************************************)
(* The state: the client (GameClient) and the engine it owns               *)
(***************************************************************************)
VARIABLES
    game,           \* GameClient.game: the GameState
    rng,            \* the state of the random source
    gamePhase,      \* GameClient.gamePhase: "draw", "meld" or "layoff"
    selectedCards,  \* GameClient.selectedCards
    timers,         \* the setTimeout callbacks pending, in the order scheduled
    modal,          \* the modals shown, of "roundEnd", "upgrade" and "gameEnd"
    offered,        \* the upgrade ids of the options shown in the upgrade modal
    user,           \* how the human plays: an input of the run
    last,           \* the last handler run and what its engine call returned
    turnDraws       \* history: the cards drawn so far in the current turn

vars ==
    <<game, rng, gamePhase, selectedCards, timers, modal, offered, user, last, turnDraws>>

\* The human's habits.  draw: the pile drawn from ("match" takes the discard
\* pile's top card when the hand holds a card of its rank, else the stock);
\* discard: the card given up (the oldest or the newest of the hand); meld:
\* whether melds and layoffs are made whenever the hand allows one; pick: the
\* upgrade option taken.
Users ==
    [draw : {"stock", "discard", "match"}, discard : {"first", "last"},
     meld : BOOLEAN, pick : 1 .. 2]

Seeds == 0 .. (NumSeeds - 1)

\* What a handler reports
Result(op) ==
    [op |-> op, actor |-> 0, ok |-> TRUE, stalemate |-> FALSE, playerWon |-> FALSE,
     card |-> Undefined, cards |-> <<>>, meldIndex |-> Undefined,
     score |-> 0, combo |-> 0, exit |-> "none"]

IsHumanTurn == Current(game) = HumanPlayer
Human == game.players[HumanPlayer]

\* A round-end or stalemate callback is pending
FlowPending == \E k \in DOMAIN timers : timers[k] \in {"endRoundFlow", "stalemateFlow"}

\* setTimeout(callback)
Schedule(callback) == Append(timers, callback)

\* updateTurnInfo(): the AI's turn is scheduled when the current player is not
\* the human
UpdateTurnInfo(g, pending) ==
    IF Current(g) # HumanPlayer THEN Append(pending, "playAITurn") ELSE pending

\* startNewGame(), for each seed of the random source and each user
Init ==
    \E seed \in Seeds, u \in Users :
        LET started(start) ==
                /\ game = start.game
                /\ rng = start.rng
        IN  /\ started(StartNewRound(NewGame, seed))
            /\ gamePhase = "draw"
            /\ selectedCards = <<>>
            /\ timers = <<>>
            /\ modal = {}
            /\ offered = <<>>
            /\ user = u
            /\ last = Result("startNewGame")
            /\ turnDraws = 0

\* The pile the human draws from
TopMatches ==
    /\ Len(game.discardPile) > 0
    /\ \E k \in DOMAIN Human.hand :
           RankIndex(Human.hand[k]) = RankIndex(Last(game.discardPile))
DrawsFrom(source) ==
    \/ user.draw = source
    \/ user.draw = "match" /\ (source = "discard") = TopMatches
    \/ FlowPending

\* handleDraw('stock')
HandleDrawStock ==
    LET drawn(res) ==
            /\ game' = res.game
            /\ rng' = res.rng
            /\ IF res.stalemate
               THEN /\ Len(timers) < MaxPending
                    /\ timers' = Schedule("stalemateFlow")
                    /\ UNCHANGED <<gamePhase, selectedCards, turnDraws>>
               ELSE /\ gamePhase' = "meld"
                    /\ selectedCards' = <<>>
                    /\ timers' = UpdateTurnInfo(res.game, timers)
                    /\ turnDraws' = turnDraws + 1
            /\ last' = [Result("drawFromStock") EXCEPT
                           !.actor = Current(game), !.ok = ~res.stalemate,
                           !.stalemate = res.stalemate, !.card = res.card]
    IN  /\ modal = {}
        /\ gamePhase = "draw"
        /\ IsHumanTurn
        /\ DrawsFrom("stock")
        /\ drawn(DrawFromStock(game, rng))
        /\ UNCHANGED <<modal, offered, user>>

\* handleDraw('discard')
HandleDrawDiscard ==
    LET drawn(res) ==
            /\ game' = res.game
            /\ IF res.card # Undefined
               THEN /\ gamePhase' = "meld"
                    /\ selectedCards' = <<>>
                    /\ timers' = UpdateTurnInfo(res.game, timers)
                    /\ turnDraws' = turnDraws + 1
               ELSE UNCHANGED <<gamePhase, selectedCards, timers, turnDraws>>
            /\ last' = [Result("drawFromDiscard") EXCEPT
                           !.actor = Current(game), !.ok = res.card # Undefined,
                           !.card = res.card]
    IN  /\ modal = {}
        /\ gamePhase = "draw"
        /\ IsHumanTurn
        /\ DrawsFrom("discard")
        /\ drawn(DrawFromDiscard(game))
        /\ UNCHANGED <<rng, modal, offered, user>>

\* Two cards of one rank in the hand, the leftmost such pair
PairsIn(hand) ==
    LET idx == {ij \in (DOMAIN hand) \X (DOMAIN hand) :
                   ij[1] < ij[2] /\ RankIndex(hand[ij[1]]) = RankIndex(hand[ij[2]])}
        first == CHOOSE ij \in idx :
                     \A kl \in idx : ij[1] < kl[1] \/ (ij[1] = kl[1] /\ ij[2] <= kl[2])
    IN  IF idx = {} THEN <<>> ELSE << <<hand[first[1]], hand[first[2]]>> >>

\* The melds the human sees in the hand: those of the finder, and a pair
\* when pairs are unlocked
HumanMelds(p) ==
    FindAllPotentialMelds(p.hand) \o (IF p.canMeldPairs THEN PairsIn(p.hand) ELSE <<>>)

\* The cards of a meld clicked from left to right in the hand
ClickOrder(hand, cards) == SelectSeq(hand, LAMBDA c : c \in Range(cards))

\* The selections the human submits to the Meld button: the first meld seen
\* (a user who melds), and the two or three leftmost cards when they are no meld
MeldSelections(p) ==
    (IF user.meld /\ Len(HumanMelds(p)) > 0
     THEN {ClickOrder(p.hand, HumanMelds(p)[1])} ELSE {})
    \cup {SubSeq(p.hand, 1, n) : n \in {k \in {2, 3} : k <= Len(p.hand)}}

\* handleMeld(), with the cards selected; the button is enabled on the
\* human's turn in the meld phase with at least two cards selected
HandleMeld ==
    LET melded(sel, res) ==
            /\ res.success => user.meld
            /\ game' = res.game
            /\ selectedCards' = IF res.success THEN <<>> ELSE sel
            /\ IF res.success /\ res.playerWon
               THEN /\ Len(timers) < MaxPending
                    /\ timers' = Schedule("endRoundFlow")
               ELSE timers' = IF res.success THEN UpdateTurnInfo(res.game, timers)
                              ELSE timers
            /\ last' = [Result("createMeld") EXCEPT
                           !.actor = Current(game), !.ok = res.success,
                           !.playerWon = res.playerWon, !.cards = sel,
                           !.score = res.finalScore, !.combo = res.comboBonus]
    IN  /\ modal = {}
        /\ gamePhase = "meld"
        /\ IsHumanTurn
        /\ \E sel \in MeldSelections(Human) :
               /\ Len(sel) >= 2
               /\ melded(sel, CreateMeld(game, sel))
        /\ UNCHANGED <<rng, gamePhase, modal, offered, user, turnDraws>>

\* The layoffs open to a player: <<card, meldIndex>> with the meld accepting
\* the card, cards in hand order, melds in table order
LayoffOptions(g, p) ==
    LET refs == GetAllMeldRefs(g)
    IN  {cm \in Range(p.hand) \X (0 .. (Len(refs) - 1)) :
            CanLayoff(MeldAt(g, refs[cm[2] + 1]), cm[1])}

\* The card the human lays off: the leftmost card of the hand some meld accepts
LayoffCard(g, p) ==
    LET cards == {cm[1] : cm \in LayoffOptions(g, p)}
    IN  p.hand[CHOOSE i \in DOMAIN p.hand :
                   /\ p.hand[i] \in cards
                   /\ \A k \in 1 .. (i - 1) : p.hand[k] \notin cards]

\* handleLayoff(): enter layoff mode with one card selected (the button is
\* enabled when some meld accepts the card), or cancel it
HandleLayoff ==
    /\ modal = {}
    /\ IsHumanTurn
    /\ user.meld
    /\ \/ /\ gamePhase = "meld"
          /\ LayoffOptions(game, Human) # {}
          /\ gamePhase' = "layoff"
          /\ selectedCards' = <<LayoffCard(game, Human)>>
       \/ /\ gamePhase = "layoff"
          /\ last.op = "layoff" /\ ~last.ok
          /\ gamePhase' = "meld"
          /\ UNCHANGED selectedCards
    /\ timers' = UpdateTurnInfo(game, timers)
    /\ last' = [Result("handleLayoff") EXCEPT !.actor = Current(game)]
    /\ UNCHANGED <<game, rng, modal, offered, user, turnDraws>>

\* selectMeldForLayoff(meldIndex): a click on a meld rendered in layoff mode;
\* the human clicks the first meld that takes the card, or the first that
\* does not
SelectMeldForLayoff ==
    LET laidOff(card, meldIndex, res) ==
            /\ game' = res.game
            /\ IF res.success
               THEN /\ selectedCards' = <<>>
                    /\ gamePhase' = "meld"
                    /\ IF res.playerWon
                       THEN /\ Len(timers) < MaxPending
                            /\ timers' = Schedule("endRoundFlow")
                       ELSE timers' = UpdateTurnInfo(res.game, timers)
               ELSE UNCHANGED <<selectedCards, gamePhase, timers>>
            /\ last' = [Result("layoff") EXCEPT
                           !.actor = Current(game), !.ok = res.success,
                           !.playerWon = res.playerWon, !.card = card,
                           !.meldIndex = meldIndex,
                           !.score = res.finalScore, !.combo = res.comboBonus]
        takes(card, k) ==
            CanLayoff(MeldAt(game, GetAllMeldRefs(game)[k + 1]), card)
    IN  /\ modal = {}
        /\ gamePhase = "layoff"
        /\ Len(selectedCards) = 1
        /\ \E meldIndex \in 0 .. (Len(GetAllMeldRefs(game)) - 1) :
               /\ \A k \in 0 .. (meldIndex - 1) :
                      takes(selectedCards[1], k) # takes(selectedCards[1], meldIndex)
               /\ laidOff(selectedCards[1], meldIndex,
                          Layoff(game, selectedCards[1], meldIndex))
        /\ UNCHANGED <<rng, modal, offered, user, turnDraws>>

\* The card the human gives up
DiscardChoice(p) == IF user.discard = "first" THEN p.hand[1] ELSE p.hand[Len(p.hand)]

\* handleDiscard(), with one card of the hand selected; the button is enabled
\* on the human's turn in the meld phase.  A user who melds discards once the
\* hand offers no meld and no layoff.
HandleDiscard ==
    LET discarded(card, res) ==
            /\ selectedCards' = <<>>
            /\ gamePhase' = "draw"
            /\ IF res.playerWon
               THEN /\ Len(timers) < MaxPending
                    /\ game' = res.game
                    /\ timers' = Schedule("endRoundFlow")
                    /\ UNCHANGED turnDraws
               ELSE /\ game' = NextPlayer(res.game)
                    /\ timers' = UpdateTurnInfo(NextPlayer(res.game), timers)
                    /\ turnDraws' = 0
            /\ last' = [Result("discard") EXCEPT
                           !.actor = Current(game), !.playerWon = res.playerWon,
                           !.card = card]
    IN  /\ modal = {}
        /\ gamePhase = "meld"
        /\ IsHumanTurn
        /\ Len(Human.hand) > 0
        /\ user.meld => (HumanMelds(Human) = <<>> /\ LayoffOptions(game, Human) = {})
        /\ discarded(DiscardChoice(Human), Discard(game, DiscardChoice(Human)))
        /\ UNCHANGED <<rng, modal, offered, user>>

\* The head of the timer queue fires
Fires(callback) == Len(timers) > 0 /\ Head(timers) = callback

\* playAITurn(), run by its timer
PlayAITurn ==
    LET played(res, rest) ==
            /\ game' = res.game
            /\ rng' = res.rng
            /\ timers' = IF res.exit = "stalemate" THEN Append(rest, "stalemateFlow")
                         ELSE IF res.exit = "next" THEN UpdateTurnInfo(res.game, rest)
                         ELSE Append(rest, "endRoundFlow")
            /\ last' = [Result("playAITurn") EXCEPT
                           !.actor = Current(game), !.exit = res.exit,
                           !.stalemate = (res.exit = "stalemate"),
                           !.ok = (res.exit # "stalemate"),
                           !.playerWon = (res.exit \in {"meld", "layoff", "discard"}),
                           !.card = res.discarded]
            /\ turnDraws' = IF res.exit = "stalemate" THEN turnDraws
                            ELSE IF res.exit = "next" THEN 0
                            ELSE turnDraws + 1
    IN  /\ Fires("playAITurn")
        /\ played(PlayAITurnOn(game, rng), Tail(timers))
        /\ UNCHANGED <<gamePhase, selectedCards, modal, offered, user>>

\* endRoundFlow(), run by its timer
EndRoundFlow ==
    LET ended(res) ==
            /\ game' = res.game
            /\ rng' = res.rng
            /\ last' = [Result("endRound") EXCEPT
                           !.actor = Current(game), !.cards = res.scores]
    IN  /\ Fires("endRoundFlow")
        /\ ended(EndRound(game, rng))
        /\ timers' = Tail(timers)
        /\ modal' = modal \cup {"roundEnd"}
        /\ UNCHANGED <<gamePhase, selectedCards, offered, user, turnDraws>>

\* stalemateFlow(), run by its timer
StalemateFlow ==
    LET ended(res) ==
            /\ game' = res.game
            /\ last' = [Result("endRoundStalemate") EXCEPT
                           !.actor = Current(game), !.stalemate = TRUE,
                           !.cards = res.scores]
    IN  /\ Fires("stalemateFlow")
        /\ ended(EndRoundStalemate(game))
        /\ timers' = Tail(timers)
        /\ modal' = modal \cup {"roundEnd"}
        /\ UNCHANGED <<rng, gamePhase, selectedCards, offered, user, turnDraws>>

\* continueAfterRound(): the game-end report after MaxRounds rounds, else the
\* upgrade options of showUpgradeSelection().  The human clicks the modal's
\* button once the pending callbacks have run.  The scores the model follows
\* are bounded: play goes on while no total exceeds MaxTotalScore.
ContinueAfterRound ==
    LET shown(opts) ==
            /\ modal' = (modal \ {"roundEnd"}) \cup {"upgrade"}
            /\ offered' = opts.upgrades
            /\ rng' = opts.rng
    IN  /\ "roundEnd" \in modal
        /\ timers = <<>>
        /\ MaxOf(GetTotalScores(game)) <= MaxTotalScore
        /\ IF game.roundNumber > MaxRounds
           THEN /\ modal' = (modal \ {"roundEnd"}) \cup {"gameEnd"}
                /\ UNCHANGED <<rng, offered>>
           ELSE shown(GetRandomUpgrades(3, Human.upgrades, rng))
        /\ last' = Result("continueAfterRound")
        /\ UNCHANGED <<game, gamePhase, selectedCards, timers, user, turnDraws>>

\* The upgrades of the AI players in selectUpgrade(): one of three random
\* options each, players in order from player i
RECURSIVE AIUpgrades(_, _, _)
AIUpgrades(g, r, i) ==
    LET selected(r1, id) == AIUpgrades(ApplyUpgrade(g, i, id).game, r1, i + 1)
        select(upgrades, r1) == selected(r1, upgrades[RandomIndex(r1, Len(upgrades)) + 1])
        offer(opts) ==
            IF Len(opts.upgrades) = 0 THEN AIUpgrades(g, opts.rng, i + 1)
            ELSE select(opts.upgrades, NextRandom(opts.rng))
    IN  IF i > NumPlayers THEN [game |-> g, rng |-> r]
        ELSE IF i = HumanPlayer THEN AIUpgrades(g, r, i + 1)
        ELSE offer(GetRandomUpgrades(3, g.players[i].upgrades, r))

\* selectUpgrade(upgradeId): a click on one of the options shown, once the
\* pending callbacks have run
SelectUpgrade ==
    LET started(upgradeId, start) ==
            /\ game' = start.game
            /\ rng' = start.rng
            /\ timers' = UpdateTurnInfo(start.game, timers)
            /\ last' = [Result("selectUpgrade") EXCEPT !.exit = upgradeId]
        upgraded(upgradeId, ai) == started(upgradeId, StartNewRound(ai.game, ai.rng))
        click(upgradeId) ==
            upgraded(upgradeId,
                     AIUpgrades(ApplyUpgrade(game, HumanPlayer, upgradeId).game, rng, 1))
    IN  /\ "upgrade" \in modal
        /\ timers = <<>>
        /\ Len(offered) > 0
        /\ click(offered[Min(user.pick, Len(offered))])
        /\ modal' = modal \ {"upgrade"}
        /\ gamePhase' = "draw"
        /\ selectedCards' = <<>>
        /\ offered' = <<>>
        /\ turnDraws' = 0
        /\ UNCHANGED user

Next ==
    \/ HandleDrawStock
    \/ HandleDrawDiscard
    \/ HandleMeld
    \/ HandleLayoff
    \/ SelectMeldForLayoff
    \/ HandleDiscard
    \/ PlayAITurn
    \/ EndRoundFlow
    \/ StalemateFlow
    \/ ContinueAfterRound
    \/ SelectUpgrade

Spec == Init /\ [][Next]_vars

(***************************************************************************)
(* Properties of the engine and the client                                 *)
(***************************************************************************)
\* The cards the game holds: stock, discard pile, hands and melds
RECURSIVE MeldCards(_)
MeldCards(melds) ==
    IF Len(melds) = 0 THEN 0 ELSE Len(Head(melds).cards) + MeldCards(Tail(melds))
CardCount(g) ==
    Len(g.stock) + Len(g.discardPile)
    + SumSeq([i \in Players |-> Len(g.players[i].hand)])
    + SumSeq([i \in Players |-> MeldCards(g.players[i].melds)])

\* The number of times x occurs in s
Occurrences(s, x) == Cardinality({k \in DOMAIN s : s[k] = x})
\* t holds the elements of s, each as often
IsPermutation(s, t) ==
    /\ Len(s) = Len(t)
    /\ \A k \in DOMAIN s : Occurrences(s, s[k]) = Occurrences(t, s[k])

\* C1: card conservation: in every state within an active round the stock,
\* the discard pile, the hands and the melds hold 52 cards together.
C1_CardConservation == game.roundActive => CardCount(game) = DeckSize

\* C2: when drawFromStock finds the stock empty and fewer than 2 reshuffles
\* were made, the reshuffle leaves the former top card of the discard pile as
\* the pile's single card, every other former pile card in the stock, and the
\* reshuffle count one higher.
C2_ReshuffleKeepsTop ==
    LET kept(res) ==
            /\ res.game.discardPile = <<Last(game.discardPile)>>
            /\ IsPermutation(res.game.stock, Front(game.discardPile))
            /\ res.game.reshuffleCount = game.reshuffleCount + 1
    IN  (/\ game.roundActive
         /\ Len(game.stock) = 0
         /\ game.reshuffleCount < MaxReshuffles)
        => kept(Reshuffle(game, rng))

\* C3: drawFromStock reports a stalemate only with the stock empty and 2
\* reshuffles made in the round; the reshuffle counter never exceeds 2, so a
\* third reshuffle never happens.
C3_StalemateAfterTwo ==
    LET reported(res) ==
            /\ res.game.reshuffleCount <= MaxReshuffles
            /\ res.stalemate =>
                   /\ Len(game.stock) = 0
                   /\ game.reshuffleCount = MaxReshuffles
    IN  /\ game.reshuffleCount <= MaxReshuffles
        /\ reported(DrawFromStock(game, rng))
        /\ (last.stalemate /\ last.op \in {"drawFromStock", "playAITurn"}) =>
               /\ Len(game.stock) = 0
               /\ game.reshuffleCount = MaxReshuffles

\* A draw from the stock has reported the stalemate
C3_StalemateReported ==
    /\ last.op \in {"drawFromStock", "playAITurn"}
    /\ last.stalemate
    /\ game.reshuffleCount = MaxReshuffles

\* The selections createMeld is tried on: runs of two to four cards of the
\* current player's hand, and the melds the hand offers
MeldInputs(g) ==
    LET hand == GetCurrentPlayer(g).hand
        windows == {w \in (DOMAIN hand) \X (2 .. 4) : w[1] + w[2] - 1 <= Len(hand)}
    IN  {SubSeq(hand, w[1], w[1] + w[2] - 1) : w \in windows}
        \cup Range(HumanMelds(GetCurrentPlayer(g)))

\* The meld indices layoff is tried on, one below and one above the table's
MeldIndices(g) == (0 - 1) .. Len(GetAllMeldRefs(g))

\* C4: a createMeld, layoff, drawFromDiscard or drawFromStock that returns a
\* failure (success false, no card, stalemate) leaves the hands, the melds,
\* the stock, the discard pile, the reshuffle counter and every player's
\* points and counters as they were.
C4_NoPartialEffects ==
    LET meld(res) == ~res.success => res.game = game
        draw(res) == res.card = Undefined => res.game = game
        stock(res) == (res.stalemate \/ res.card = Undefined) => res.game = game
    IN  /\ \A sel \in MeldInputs(game) : meld(CreateMeld(game, sel))
        /\ \A card \in Cards : \A meldIndex \in MeldIndices(game) :
               meld(Layoff(game, card, meldIndex))
        /\ draw(DrawFromDiscard(game))
        /\ stock(DrawFromStock(game, rng))

\* An engine call of a handler has failed
C4_CallFailed ==
    /\ ~last.ok
    /\ last.op \in {"createMeld", "layoff", "drawFromStock", "playAITurn"}
    /\ game.roundActive

\* C5: in every turn the current player draws exactly one card before any
\* meld, layoff or discard of the turn, and no second card is drawn until the
\* turn has passed to the next player.
C5_OneDrawPerTurn ==
    [][/\ turnDraws' <= 1
       /\ (HandleMeld /\ last'.ok) => turnDraws = 1
       /\ (SelectMeldForLayoff /\ last'.ok) => turnDraws = 1
       /\ HandleDiscard => turnDraws = 1
       /\ (PlayAITurn /\ last'.ok) => turnDraws = 0]_vars

\* A round-end callback is pending
EndRoundPending == \E k \in DOMAIN timers : timers[k] = "endRoundFlow"

\* C6: after a discard that leaves cards in the hand the turn passes to the
\* next player in list order, wrapping around, and the phase is reset to
\* draw; after a discard that empties the hand the current player index is
\* not advanced before the settlement.
C6_TurnPasses ==
    [][/\ HandleDiscard =>
              IF last'.playerWon
              THEN game'.currentPlayerIndex = game.currentPlayerIndex
              ELSE /\ game'.currentPlayerIndex = (game.currentPlayerIndex + 1) % NumPlayers
                   /\ game'.phase = "draw"
                   /\ gamePhase' = "draw"
       /\ (PlayAITurn /\ last'.exit = "next") =>
              /\ game'.currentPlayerIndex = (game.currentPlayerIndex + 1) % NumPlayers
              /\ game'.phase = "draw"
       /\ (PlayAITurn /\ last'.exit = "discard") =>
              game'.currentPlayerIndex = game.currentPlayerIndex
       /\ (EndRoundPending /\ ~EndRoundFlow) =>
              game'.currentPlayerIndex = game.currentPlayerIndex]_vars

\* The last player of the list has discarded and the turn has wrapped around
C6_WrappedAround ==
    /\ last.op = "playAITurn"
    /\ last.exit = "next"
    /\ last.card # Undefined
    /\ last.actor = NumPlayers
    /\ game.currentPlayerIndex = 0
    /\ gamePhase = "draw"

\* C7: discard(card) moves exactly one card from the current player's hand to
\* the top of the discard pile, for every card passed to it, a card that is
\* not in the hand included: the hand shrinks by one, the pile grows by one
\* with the card on top, and nothing else that holds cards changes.
C7_DiscardMovesOne ==
    LET moved(card, res) ==
            /\ Len(res.game.players[Current(game)].hand)
                   = Len(GetCurrentPlayer(game).hand) - 1
            /\ res.game.discardPile = Append(game.discardPile, card)
            /\ res.game.stock = game.stock
            /\ \A i \in Players :
                   /\ res.game.players[i].melds = game.players[i].melds
                   /\ i # Current(game) =>
                          res.game.players[i].hand = game.players[i].hand
    IN  game.roundActive => \A card \in Cards : moved(card, Discard(game, card))

\* A meld or layoff has emptied the hand of the player who made it
EarlyWin ==
    \/ last.op \in {"createMeld", "layoff"} /\ last.ok /\ last.playerWon
    \/ last.op = "playAITurn" /\ last.exit \in {"meld", "layoff"}

\* What createMeld and layoff return and record about the hand they leave
C8_Results ==
    LET before == GetCurrentPlayer(game)
        closed(res, after) ==
            IF res.success
            THEN /\ res.playerWon = (Len(after.hand) = 0)
                 /\ after.emptiedHandEarly =
                        (IF res.playerWon THEN TRUE ELSE before.emptiedHandEarly)
            ELSE ~res.playerWon
        closes(res) == closed(res, res.game.players[Current(game)])
    IN  /\ \A sel \in MeldInputs(game) : closes(CreateMeld(game, sel))
        /\ \A card \in Cards : \A meldIndex \in MeldIndices(game) :
               closes(Layoff(game, card, meldIndex))
        /\ EarlyWin =>
               /\ Current(game) = last.actor
               /\ Len(game.players[last.actor].hand) = 0
               /\ game.players[last.actor].emptiedHandEarly
               /\ EndRoundPending

DiscardWin ==
    \/ last.op = "discard" /\ last.playerWon
    \/ last.op = "playAITurn" /\ last.exit = "discard"

\* The names of the bonuses of a list
BonusNames(bs) == {bs[k].name : k \in DOMAIN bs}

\* C9: discard returns playerWon = true exactly when the hand is empty after
\* it and never sets the emptiedHandEarly flag; at the settlement a player who
\* won by discard receives the Win Bonus and not the Overflow Bonus.
C9_DiscardWin ==
    LET before == GetCurrentPlayer(game)
        closed(res, after) ==
            /\ res.playerWon = (Len(after.hand) = 0)
            /\ after.emptiedHandEarly = before.emptiedHandEarly
        closes(res) == closed(res, res.game.players[Current(game)])
        rewarded(names) == "Win Bonus" \in names /\ "Overflow Bonus" \notin names
        settles(res) == rewarded(BonusNames(res.bonusDetails[last.actor].flatBonuses))
    IN  /\ \A card \in Cards : closes(Discard(game, card))
        /\ DiscardWin => settles(EndRound(game, rng))

\* A player has discarded the last card of the hand
C9_DiscardedOut ==
    /\ DiscardWin
    /\ Len(game.players[last.actor].hand) = 0
    /\ ~game.players[last.actor].emptiedHandEarly
    /\ EndRoundPending

\* C10: applyUpgrade with an id the player already owns leaves the player's
\* upgrade list and every persistent field unchanged: the apply hook is not
\* invoked a second time.
C10_ApplyUpgradeIdempotent ==
    \A i \in Players : \A k \in DOMAIN game.players[i].upgrades :
        ApplyUpgrade(game, i, game.players[i].upgrades[k]).game = game

\* The ids applyUpgrade is tried on: the catalog's, and ids it does not hold
UnknownIds == {"recycled_wood", "lucky_seven", ""}
UpgradeInputs == Range(UpgradeIds) \cup UnknownIds

\* No id occurs twice in the list
NoDuplicates(s) == \A j, k \in DOMAIN s : s[j] = s[k] => j = k

\* C11: after any sequence of applyUpgrade calls and rounds no upgrade id
\* occurs more than once in a player's list of owned upgrades.
C11_NoUpgradeTwice ==
    /\ \A i \in Players : NoDuplicates(game.players[i].upgrades)
    /\ \A i \in Players : \A id \in UpgradeInputs :
           NoDuplicates(ApplyUpgrade(game, i, id).game.players[i].upgrades)

\* Every player owns upgrades of several rounds
C11_SeveralOwned == \A i \in Players : Len(game.players[i].upgrades) >= 3

\* C12: applyUpgrade with an id that is not in the catalog returns false and
\* changes nothing: the player's upgrade list and every persistent field of
\* the player are as before.
C12_UnknownUpgradeRejected ==
    LET rejected(res) == ~res.ok /\ res.game = game
    IN  \A i \in Players : \A id \in UnknownIds : rejected(ApplyUpgrade(game, i, id))

\* A player who owns upgrades is offered an id the catalog does not hold
C12_UnknownOffered ==
    \E i \in Players :
        /\ Len(game.players[i].upgrades) > 0
        /\ ~IsUpgrade("recycled_wood")
        /\ ~ApplyUpgrade(game, i, "recycled_wood").ok

\* A round has just been settled
JustSettled == last.op \in {"endRound", "endRoundStalemate"}

\* C13: after a round is settled, by endRound or endRoundStalemate, each
\* player's carryover multiplier for the next round comes from the cumulative
\* totals that include the round just settled: 1 for a player whose total
\* equals the leader's, 1 + (leaderTotal - playerTotal) * catchupRate for
\* every other player.
C13_CatchupFromUpdatedTotals ==
    LET follows(totals) ==
            \A i \in Players :
                /\ game.players[i].carryoverMultiplier = CatchupFor(totals, i)
                /\ totals[i] = MaxOf(totals) =>
                       game.players[i].carryoverMultiplier = Whole(1)
                /\ totals[i] < MaxOf(totals) =>
                       FGreater(game.players[i].carryoverMultiplier, Whole(1))
    IN  JustSettled => follows(GetTotalScores(game))

(***************************************************************************)
(* meld.js on its own: card lists over a few ranks and suits are handed to *)
(* new Meld(cards) and the meld is asked about cards                       *)
(***************************************************************************)
\* The card of a rank index and a suit index
CardOf(rank, suit) == suit * NumRanks + rank

\* The cards tried (As, 2s, 3s, 4s, Ks, Ah, 2h, 4h) and the length of the lists
ProbeCards ==
    {CardOf(0, 0), CardOf(1, 0), CardOf(2, 0), CardOf(3, 0), CardOf(12, 0),
     CardOf(0, 1), CardOf(1, 1), CardOf(3, 1)}
MaxProbeLen == 4

\* The card lists of a length, and of every length tried
ListsOfLen(n) == [1 .. n -> ProbeCards]
ProbeLists == UNION {ListsOfLen(n) : n \in 0 .. MaxProbeLen}

\* A client with a card list selected, before any game
MeldInit ==
    /\ game = NewGame
    /\ rng = 0
    /\ gamePhase = "meld"
    /\ selectedCards \in ProbeLists
    /\ timers = <<>>
    /\ modal = {}
    /\ offered = <<>>
    /\ user = [draw |-> "stock", discard |-> "first", meld |-> TRUE, pick |-> 1]
    /\ last = Result("select")
    /\ turnDraws = 0

\* new Meld(selectedCards, owner): the type determineMeldType derives
Classify ==
    /\ last' = [Result("determineMeldType") EXCEPT
                   !.cards = selectedCards,
                   !.ok = IsValid(NewMeld(selectedCards, HumanPlayer)),
                   !.exit = NewMeld(selectedCards, HumanPlayer).type]
    /\ UNCHANGED <<game, rng, gamePhase, selectedCards, timers, modal, offered,
                   user, turnDraws>>

\* new Meld(selectedCards, owner).canLayoff(card)
AskLayoff ==
    \E card \in ProbeCards :
        /\ last' = [Result("canLayoff") EXCEPT
                       !.cards = selectedCards, !.card = card,
                       !.exit = NewMeld(selectedCards, HumanPlayer).type,
                       !.ok = CanLayoff(NewMeld(selectedCards, HumanPlayer), card)]
        /\ UNCHANGED <<game, rng, gamePhase, selectedCards, timers, modal, offered,
                       user, turnDraws>>

MeldNext == Classify \/ AskLayoff

MeldSpec == MeldInit /\ [][MeldNext]_vars

\* The rank indices of a card list
RankSet(cards) == {RankIndex(cards[k]) : k \in DOMAIN cards}

\* A set: 3 or 4 cards, all of one rank
ASet(cards) ==
    /\ Len(cards) \in {3, 4}
    /\ Cardinality(RankSet(cards)) = 1

\* A run: at least 3 cards of one suit whose rank indices, Ace low, are
\* consecutive without a gap, a repeat or a wrap from K to A
ARun(cards) ==
    /\ Len(cards) >= 3
    /\ Cardinality({SuitIndex(cards[k]) : k \in DOMAIN cards}) = 1
    /\ Cardinality(RankSet(cards)) = Len(cards)
    /\ \E lo \in 0 .. (NumRanks - 1) :
           RankSet(cards) = lo .. (lo + Len(cards) - 1)

\* The kind of a card list
KindOf(cards) ==
    IF ASet(cards) THEN "set" ELSE IF ARun(cards) THEN "run" ELSE "invalid"

\* C14: the kind derived for a card list is set iff it has 3 or 4 cards all of
\* one rank, run iff it has at least 3 cards of one suit with consecutive rank
\* indices (Ace low, no wraparound), and invalid otherwise; {3s,3h,7d} and
\* Q-K-A of one suit are invalid.
C14_Classification ==
    /\ DetermineMeldType(selectedCards) = KindOf(selectedCards)
    /\ last.op = "determineMeldType" => last.exit = KindOf(last.cards)
    /\ DetermineMeldType(<<CardOf(2, 0), CardOf(2, 1), CardOf(6, 3)>>) = "invalid"
    /\ DetermineMeldType(<<CardOf(11, 1), CardOf(12, 1), CardOf(0, 1)>>) = "invalid"
    /\ DetermineMeldType(<<CardOf(8, 0), CardOf(8, 1), CardOf(8, 2)>>) = "set"
    /\ DetermineMeldType(<<CardOf(8, 0), CardOf(8, 1), CardOf(8, 2), CardOf(8, 3)>>) = "set"
    /\ DetermineMeldType(<<CardOf(3, 3), CardOf(4, 3), CardOf(5, 3)>>) = "run"
    /\ DetermineMeldType(<<CardOf(12, 2), CardOf(9, 2), CardOf(11, 2), CardOf(10, 2)>>) = "run"
    /\ DetermineMeldType(<<CardOf(8, 0), CardOf(8, 1), CardOf(8, 2), CardOf(8, 3),
                           CardOf(8, 0)>>) = "invalid"

\* A run given out of order has been classified
C14_RunClassified ==
    /\ last.op = "determineMeldType"
    /\ last.exit = "run"
    /\ RankIndex(last.cards[1]) > RankIndex(last.cards[2])

\* The two-card selections of the current player's hand
TwoCardInputs(g) ==
    LET hand == GetCurrentPlayer(g).hand
    IN  {<<hand[j], hand[k]>> : j, k \in DOMAIN hand} \ {<<c, c>> : c \in Cards}

\* C15: createMeld with exactly two cards of one rank succeeds, as a pair meld
\* that increments pairsMelded, iff the current player holds the pairs
\* capability (gemini applied); without the capability it fails and changes
\* nothing, and two cards of different rank always fail.
C15_PairGating ==
    LET before == GetCurrentPlayer(game)
        gated(sel, res, after) ==
            /\ res.success =
                   (RankIndex(sel[1]) = RankIndex(sel[2]) /\ before.canMeldPairs)
            /\ res.success =>
                   /\ after.pairsMelded = before.pairsMelded + 1
                   /\ after.melds = Append(before.melds, NewMeld(sel, Current(game)))
                   /\ after.setCount = before.setCount
                   /\ after.runCount = before.runCount
            /\ ~res.success => res.game = game
        gates(sel, res) == gated(sel, res, res.game.players[Current(game)])
    IN  /\ \A sel \in TwoCardInputs(game) : gates(sel, CreateMeld(game, sel))
        /\ \A i \in Players :
               game.players[i].canMeldPairs = HasUpgrade(game.players[i], "gemini")

\* The human has melded a pair
C15_PairMelded ==
    /\ last.op = "createMeld"
    /\ last.ok
    /\ Len(last.cards) = 2
    /\ Human.canMeldPairs
    /\ Human.pairsMelded > 0

\* Whether a meld of a kind, holding the cards, takes the card: a set a card
\* of its rank, a run a card of its suit one below its lowest or one above
\* its highest rank index
Takes(kind, cards, card) ==
    IF kind = "set" THEN RankSet(cards) = {RankIndex(card)}
    ELSE /\ kind = "run"
         /\ \A k \in DOMAIN cards : SuitIndex(cards[k]) = SuitIndex(card)
         /\ \/ \A r \in RankSet(cards) : RankIndex(card) + 1 <= r
            \/ \A r \in RankSet(cards) : RankIndex(card) - 1 >= r
         /\ \/ RankIndex(card) + 1 \in RankSet(cards)
            \/ RankIndex(card) - 1 \in RankSet(cards)

\* The melds of the examples
Run456d == NewMeld(<<CardOf(3, 3), CardOf(4, 3), CardOf(5, 3)>>, HumanPlayer)
Set9shc == NewMeld(<<CardOf(8, 0), CardOf(8, 1), CardOf(8, 2)>>, HumanPlayer)

\* C16: canLayoff on a run is true iff the card has the run's suit and its
\* rank index is one below the run's current minimum or one above its current
\* maximum; canLayoff on a set is true iff the card's rank is the set's rank.
\* Run {4d,5d,6d} takes 3d and 7d and rejects 8d and 4h; set {9s,9h,9c} takes
\* 9d and rejects 8d.
C16_LayoffEligibility ==
    LET meld == NewMeld(selectedCards, HumanPlayer)
        extended(card) == AddCard(meld, card)
    IN  /\ meld.type \in {"set", "run"} =>
               \A card \in ProbeCards :
                   /\ CanLayoff(meld, card) = Takes(meld.type, meld.cards, card)
                   /\ CanLayoff(meld, card) =>
                          \A next \in ProbeCards :
                              CanLayoff(extended(card), next)
                                  = Takes(meld.type, extended(card).cards, next)
        /\ (last.op = "canLayoff" /\ last.exit \in {"set", "run"}) =>
               last.ok = Takes(last.exit, last.cards, last.card)
        /\ CanLayoff(Run456d, CardOf(2, 3))
        /\ CanLayoff(Run456d, CardOf(6, 3))
        /\ ~CanLayoff(Run456d, CardOf(7, 3))
        /\ ~CanLayoff(Run456d, CardOf(3, 1))
        /\ CanLayoff(Set9shc, CardOf(8, 3))
        /\ ~CanLayoff(Set9shc, CardOf(7, 3))
        /\ CanLayoff(AddCard(Run456d, CardOf(6, 3)), CardOf(7, 3))
        /\ ~CanLayoff(AddCard(Run456d, CardOf(6, 3)), CardOf(6, 3))

\* A run has been asked about a card and takes it
C16_RunTakesCard ==
    /\ last.op = "canLayoff"
    /\ last.exit = "run"
    /\ last.ok

\* C17: for a pair meld on the table, created under the pairs capability,
\* canLayoff is true iff the card's rank is the pair's rank, so a layoff of a
\* card of that rank onto the pair succeeds.
C17_PairTakesRank ==
    LET refs == GetAllMeldRefs(game)
        taken(meld, meldIndex) ==
            \A card \in Cards :
                /\ CanLayoff(meld, card) = (RankIndex(card) = RankIndex(meld.cards[1]))
                /\ (/\ RankIndex(card) = RankIndex(meld.cards[1])
                    /\ card \in Range(GetCurrentPlayer(game).hand))
                   => Layoff(game, card, meldIndex).success
    IN  \A k \in DOMAIN refs :
            IsPair(MeldAt(game, refs[k]).cards) => taken(MeldAt(game, refs[k]), k - 1)

\* Math.round of a positive fraction, as the floor of the fraction plus a half
RoundHalfUp(a) == (2 * a[1] + a[2]) \div (2 * a[2])

\* The value of a card for a player: 20 for J, Q, K under face_cards
ValueFor(p, card) ==
    IF HasUpgrade(p, "face_cards") /\ RankIndex(card) \in FaceRanks
    THEN FaceCardsValue ELSE CardValue(card)

\* The base addends of a player's actions
Addends(p) ==
    p.baseMod
    + (IF HasUpgrade(p, "recycling_plant") THEN p.recyclingPlantBonus ELSE 0)
    + (IF HasUpgrade(p, "evo_base") THEN EvoBaseStep * (p.evoBaseWins + p.evoBaseLosses)
       ELSE 0)

\* The upgrade multiplier of a category without wildfire: the category's and
\* the common accumulator, and 1 + half the evo_scale rounds
UpgradeMult(p, category) ==
    FMul(FMul(p.upgradeMultipliers[category], p.upgradeMultipliers.all),
         IF HasUpgrade(p, "evo_scale")
         THEN FAdd(Whole(1), Frac(p.evoScaleWins + p.evoScaleLosses, 2)) ELSE Whole(1))

\* The score of a meld of the cards by the player
MeldScore(p, cards) ==
    LET sum == SumSeq([k \in DOMAIN cards |-> ValueFor(p, cards[k])])
        actionMult == IF Len(cards) = 2 THEN PairMod
                      ELSE IF KindOf(cards) = "set" THEN SetMod ELSE RunMod
        once == IF HasUpgrade(p, "wildfire") /\ p.wildfireAvailable
                THEN Whole(WildfireMult) ELSE Whole(1)
    IN  RoundHalfUp(FMul(FMul(Whole(sum + Addends(p)), actionMult),
                         FMul(UpgradeMult(p, "meld"), once)))

\* The score of a layoff of the card by the player
LayoffScore(p, card) ==
    RoundHalfUp(FMul(FMul(Whole(ValueFor(p, card) + Addends(p)), LayMod),
                     UpgradeMult(p, "layoff")))

\* C18: every successful createMeld adds round((sum of the card values under
\* the player's rank overrides + base addends) * actionMult * upgradeMult) to
\* the acting player's round points at once, actionMult being pairMod for a
\* pair, setMod for a set, runMod for a run; with no upgrades {9s,9h,9c} adds
\* exactly 81.  Every successful layoff adds round((card value + base
\* addends) * layMod * layoff upgradeMult).  (The combo bonus is a separate
\* addend, reported apart from the score.)
C18_ActionScore ==
    LET before == GetCurrentPlayer(game)
        added(res, after, score) ==
            res.success =>
                /\ res.finalScore = score
                /\ after.points = before.points + score + res.comboBonus
        melds(sel, res) ==
            added(res, res.game.players[Current(game)], MeldScore(before, sel))
        laysOff(card, res) ==
            added(res, res.game.players[Current(game)], LayoffScore(before, card))
    IN  /\ \A sel \in MeldInputs(game) : melds(sel, CreateMeld(game, sel))
        /\ \A card \in Range(before.hand) : \A meldIndex \in MeldIndices(game) :
               laysOff(card, Layoff(game, card, meldIndex))
        /\ CalculateMeldScore(Set9shc, NewPlayer).finalScore = 81
        /\ (last.op \in {"createMeld", "layoff"} /\ last.ok) => last.score > 0

\* An owner of upgrades has melded
C18_UpgradedMeld ==
    /\ last.op = "createMeld"
    /\ last.ok
    /\ last.score > 0
    /\ Len(game.players[last.actor].upgrades) > 1
    /\ game.players[last.actor].points >= last.score


\* The face value of a hand
HandValue(hand) == SumSeq([k \in DOMAIN hand |-> CardValue(hand[k])])

\* The flat bonuses due to player i of the settled game when winner has won:
\* the win bonus and the capped tenth of the opponents' hands to the winner,
\* the overflow bonus to who emptied the hand before discarding
FlatDue(g, winner, i) ==
    LET opponents == SumSeq([j \in Players |->
                                IF j = winner THEN 0 ELSE HandValue(g.players[j].hand)])
        tenth == RoundHalfUp(<<opponents, DeadwoodBonusDivisor>>)
    IN  (IF i = winner
         THEN WinBonus + (IF tenth < DeadwoodBonusCap THEN tenth ELSE DeadwoodBonusCap)
         ELSE 0)
        + (IF g.players[i].emptiedHandEarly THEN OverflowBonus ELSE 0)

\* C19: for every player in a won round, the recorded final round score is
\* round((roundPoints + sum of the player's flat bonuses) * product of the
\* player's multipliers), the Win Bonus and the Deadwood Bonus =
\* min(round(opponents' remaining hand value after auto-layoff / 10), cap)
\* being given to the winner only.
C19_RoundEndScore ==
    LET winner == Current(game)
        scored(g, record, i, details) ==
            /\ details.roundPoints = g.players[i].points
            /\ record.scores[i] =
                   RoundTimes(details.roundPoints + FlatDue(g, winner, i),
                              ProductValues(details.multipliers))
            /\ ("Win Bonus" \in BonusNames(details.flatBonuses)) = (i = winner)
            /\ ("Deadwood Bonus" \in BonusNames(details.flatBonuses)) = (i = winner)
            /\ details.finalScore = record.scores[i]
        settled(res) ==
            /\ Last(res.game.scoreHistory).winner = winner
            /\ ~Last(res.game.scoreHistory).stalemate
            /\ \A i \in Players :
                   scored(res.game, Last(res.game.scoreHistory), i, res.bonusDetails[i])
    IN  /\ Fires("endRoundFlow") => settled(EndRound(game, rng))
        /\ last.op = "endRound" => last.cards = Last(game.scoreHistory).scores

\* A won round has been settled: the winner took a deadwood bonus and an
\* opponent's points were multiplied
C19_WonRoundSettled ==
    /\ last.op = "endRound"
    /\ \E j \in Players :
           /\ j # last.actor
           /\ HandValue(game.players[j].hand) >= DeadwoodBonusDivisor
           /\ game.players[j].points > 0
           /\ last.cards[j] > game.players[j].points
    /\ last.cards[last.actor] > game.players[last.actor].points + WinBonus


\* The product of the values of a list of multipliers
RECURSIVE TimesAll(_)
TimesAll(bs) ==
    IF Len(bs) = 0 THEN Whole(1) ELSE FMul(TimesAll(Front(bs)), bs[Len(bs)].value)

\* C20: in endRoundStalemate no player receives a flat bonus (no Win,
\* Deadwood or Overflow bonus), every player's final score is
\* round(roundPoints * product of the player's multipliers), and the history
\* record carries the stalemate flag and no winner.
C20_StalemateSettlement ==
    LET scored(record, i, details) ==
            /\ details.flatBonuses = <<>>
            /\ details.roundPoints = game.players[i].points
            /\ details.multipliers =
                   CalculateRoundEndBonuses(game.players[i], FALSE, 0).multipliers
            /\ record.scores[i] =
                   RoundTimes(game.players[i].points, TimesAll(details.multipliers))
            /\ details.finalScore = record.scores[i]
        settled(res) ==
            /\ Last(res.game.scoreHistory).stalemate
            /\ Last(res.game.scoreHistory).winner = 0
            /\ Last(res.game.scoreHistory).round = game.roundNumber
            /\ \A i \in Players :
                   scored(Last(res.game.scoreHistory), i, res.bonusDetails[i])
    IN  /\ Fires("stalemateFlow") => settled(EndRoundStalemate(game))
        /\ last.op = "endRoundStalemate" =>
               /\ last.cards = Last(game.scoreHistory).scores
               /\ Last(game.scoreHistory).stalemate
               /\ Last(game.scoreHistory).winner = 0

\* A stalemate has been settled and a player's points were multiplied
C20_StalemateSettled ==
    /\ last.op = "endRoundStalemate"
    /\ Last(game.scoreHistory).stalemate
    /\ \E i \in Players :
           /\ game.players[i].points > 0
           /\ last.cards[i] > game.players[i].points


\* The card is eligible for some table meld of the game
Eligible(g, card) ==
    \E k \in DOMAIN GetAllMeldRefs(g) : CanLayoff(MeldAt(g, GetAllMeldRefs(g)[k]), card)

\* The cards of player i's hand that some table meld accepts
EligibleCards(g, i) == {c \in Range(g.players[i].hand) : Eligible(g, c)}

\* The settlement g -> h has passed the eligible cards of the players other
\* than winner onto the melds, each counted as a layoff
AutoLaidOff(g, h, winner) ==
    \A i \in Players \ {winner} :
        /\ EligibleCards(g, i) \cap Range(h.players[i].hand) = {}
        /\ h.players[i].layoffCount >=
               g.players[i].layoffCount + Cardinality(EligibleCards(g, i))

\* The settlement of a won round starts with the auto-layoff pass
C21_WonRoundLaysOff ==
    LET settled(res) == AutoLaidOff(game, res.game, Current(game))
    IN  Fires("endRoundFlow") => settled(EndRound(game, rng))

\* C21: round-end settlement, whether triggered by a win or by a stalemate,
\* starts with the auto-layoff pass: for every non-winning player, each
\* remaining hand card that is eligible for some table meld is moved onto an
\* eligible meld, scored with the layoff formula and counted in the player's
\* layoff counter, before any bonus is computed.
C21_AutoLayoffFirst ==
    LET settled(res) == AutoLaidOff(game, res.game, 0)
    IN  /\ C21_WonRoundLaysOff
        /\ Fires("stalemateFlow") => settled(EndRoundStalemate(game))


\* The game as startNewRound leaves it with 4 players and 7 cards each
Dealt(g) ==
    /\ \A i \in Players :
           /\ Len(g.players[i].hand) = 7
           /\ Len(g.players[i].hand) = CardsPerPlayer
           /\ g.players[i].melds = <<>>
    /\ Len(g.discardPile) = 1
    /\ Len(g.stock) = 23
    /\ Len(g.stock) = DeckSize - NumPlayers * CardsPerPlayer - 1
    /\ g.reshuffleCount = 0
    /\ g.currentPlayerIndex = 0
    /\ Current(g) = 1
    /\ g.phase = "draw"

\* startNewRound has just run
JustDealt == last.op \in {"startNewGame", "selectUpgrade"}

\* C22: immediately after startNewRound, with 4 players and 7 cards per
\* player, every hand has exactly 7 cards, the discard pile exactly 1 card,
\* the stock exactly 23 cards, no player has a meld, the reshuffle counter is
\* 0, the current player is the first player and the phase is draw.
C22_Dealing ==
    LET dealt(start) == Dealt(start.game)
    IN  /\ JustDealt => Dealt(game)
        /\ ~game.roundActive => dealt(StartNewRound(game, rng))

\* A later round has been dealt to players of whom one owns an upgrade
C22_LaterRoundDealt ==
    /\ last.op = "selectUpgrade"
    /\ game.roundNumber > 1
    /\ Len(game.stock) = 23
    /\ \E i \in Players : Len(game.players[i].upgrades) > 0


\* The persistent state of a player
Persistent(p) ==
    [upgrades |-> p.upgrades, upgradeMultipliers |-> p.upgradeMultipliers,
     baseMod |-> p.baseMod, cardValueOverrides |-> p.cardValueOverrides,
     wildfireAvailable |-> p.wildfireAvailable,
     recyclingPlantBonus |-> p.recyclingPlantBonus,
     evoScaleWins |-> p.evoScaleWins, evoScaleLosses |-> p.evoScaleLosses,
     evoBaseWins |-> p.evoBaseWins, evoBaseLosses |-> p.evoBaseLosses,
     carryoverMultiplier |-> p.carryoverMultiplier]

\* The command's result keeps the persistent state of every player
KeepsPersistent(res) ==
    \A i \in Players : Persistent(res.game.players[i]) = Persistent(game.players[i])

\* The round-scoped counters of a player are zero
RoundCountersZero(p) ==
    /\ p.points = 0 /\ p.layoffCount = 0 /\ p.comboCount = 0 /\ p.pairsMelded = 0
    /\ p.meldCount = 0 /\ p.setCount = 0 /\ p.runCount = 0
    /\ ~p.emptiedHandEarly

\* The draws and the layoff keep the persistent state
C23_DrawsAndLayoffsKeep ==
    game.roundActive =>
        /\ KeepsPersistent(DrawFromStock(game, rng))
        /\ KeepsPersistent(DrawFromDiscard(game))
        /\ \A card \in Range(GetCurrentPlayer(game).hand) :
               \A meldIndex \in MeldIndices(game) :
                   KeepsPersistent(Layoff(game, card, meldIndex))

\* createMeld keeps the persistent state
C23_CreateMeldKeeps ==
    game.roundActive => \A sel \in MeldInputs(game) : KeepsPersistent(CreateMeld(game, sel))

\* discard keeps the persistent state
C23_DiscardKeeps ==
    game.roundActive =>
        \A card \in Range(GetCurrentPlayer(game).hand) : KeepsPersistent(Discard(game, card))

\* startNewRound keeps the persistent state and zeroes the round's counters
C23_StartNewRoundKeeps ==
    LET started(start) ==
            /\ KeepsPersistent(start)
            /\ \A i \in Players : RoundCountersZero(start.game.players[i])
    IN  ~game.roundActive => started(StartNewRound(game, rng))

\* startNewRound zeroes the round's counters
C23_StartNewRoundZeroes ==
    LET started(start) == \A i \in Players : RoundCountersZero(start.game.players[i])
    IN  ~game.roundActive => started(StartNewRound(game, rng))

\* C23: the persistent state of a player (owned upgrades, multiplier
\* accumulators, baseMod, rank-value overrides, wildfire-available flag,
\* recycling-plant counter, evo win/loss counters, carryover multiplier) is
\* changed only by upgrade application or round-end settlement: startNewRound
\* and the in-round actions draw, createMeld, layoff and discard leave every
\* one of these fields unchanged, while all round-scoped counters are zeroed
\* by startNewRound.
C23_PersistentFrame ==
    /\ C23_DrawsAndLayoffsKeep
    /\ C23_CreateMeldKeeps
    /\ C23_DiscardKeeps
    /\ C23_StartNewRoundKeeps


\* Meld n is meld m, possibly with more cards: the owner and the kind are
\* the same and every card of m is in n as often
Grown(m, n) ==
    /\ n.owner = m.owner
    /\ n.type = m.type
    /\ Len(n.cards) >= Len(m.cards)
    /\ \A c \in Range(m.cards) : Occurrences(n.cards, c) >= Occurrences(m.cards, c)

\* Every meld of g is on the table of h, at its place, and has only grown
MeldsGrown(g, h) ==
    \A i \in Players :
        /\ Len(h.players[i].melds) >= Len(g.players[i].melds)
        /\ \A k \in DOMAIN g.players[i].melds :
               Grown(g.players[i].melds[k], h.players[i].melds[k])

\* The places <<player, index>> of the melds of g whose card list differs in h
ChangedMelds(g, h) ==
    {ref \in Range(GetAllMeldRefs(g)) :
        h.players[ref[1]].melds[ref[2]].cards # g.players[ref[1]].melds[ref[2]].cards}

\* What the engine's commands do to the melds on the table
C24_Commands ==
    LET melded(sel, res) ==
            /\ MeldsGrown(game, res.game)
            /\ ChangedMelds(game, res.game) = {}
            /\ MeldCards(res.game.players[Current(game)].melds)
                   = MeldCards(GetCurrentPlayer(game).melds)
                     + (IF res.success THEN Len(sel) ELSE 0)
        laidOff(card, res) ==
            /\ MeldsGrown(game, res.game)
            /\ \A i \in Players :
                   Len(res.game.players[i].melds) = Len(game.players[i].melds)
            /\ Cardinality(ChangedMelds(game, res.game)) = (IF res.success THEN 1 ELSE 0)
            /\ \A ref \in ChangedMelds(game, res.game) :
                   IsPermutation(Append(MeldAt(game, ref).cards, card),
                                 MeldAt(res.game, ref).cards)
        kept(res) ==
            \A i \in Players : res.game.players[i].melds = game.players[i].melds
        settled(res) ==
            /\ MeldsGrown(game, res.game)
            /\ \A i \in Players :
                   Len(res.game.players[i].melds) = Len(game.players[i].melds)
            /\ SumSeq([i \in Players |-> MeldCards(res.game.players[i].melds)])
                   = SumSeq([i \in Players |-> MeldCards(game.players[i].melds)])
                     + Len(res.autoLayoffLog)
    IN  /\ game.roundActive =>
               /\ \A sel \in MeldInputs(game) : melded(sel, CreateMeld(game, sel))
               /\ \A card \in Range(GetCurrentPlayer(game).hand) :
                      \A meldIndex \in MeldIndices(game) :
                          laidOff(card, Layoff(game, card, meldIndex))
               /\ \A card \in Range(GetCurrentPlayer(game).hand) :
                      kept(Discard(game, card))
               /\ kept(DrawFromStock(game, rng))
               /\ kept(DrawFromDiscard(game))
        /\ Fires("endRoundFlow") => settled(EndRound(game, rng))
        /\ Fires("stalemateFlow") => kept(EndRoundStalemate(game))

\* C24: within a round the table melds only grow: once created a meld is
\* never removed or merged, its owner and kind never change, no card ever
\* leaves a meld, and its card list changes only by a successful layoff or
\* auto-layoff adding exactly one card.
C24_MeldsOnlyGrow ==
    /\ []C24_Commands
    /\ [][last'.op # "selectUpgrade" => MeldsGrown(game, game')]_vars

\* A layoff has extended a meld of a player who has several melds
C24_MeldExtended ==
    /\ last.op \in {"layoff", "playAITurn"}
    /\ \E i \in Players : \E k \in DOMAIN game.players[i].melds :
           /\ game.players[i].melds[k].layoffCards # {}
           /\ Len(game.players[i].melds[k].cards) > MinMeldSize
           /\ Len(game.players[i].melds) > 1


\* The shape of a table meld by its kind
SetShaped(cards) ==
    /\ Len(cards) \in 3 .. 4
    /\ \A k \in DOMAIN cards : RankIndex(cards[k]) = RankIndex(cards[1])
    /\ \A j, k \in DOMAIN cards : j # k => SuitIndex(cards[j]) # SuitIndex(cards[k])
RunShaped(cards) ==
    /\ Len(cards) >= 3
    /\ \A k \in DOMAIN cards : SuitIndex(cards[k]) = SuitIndex(cards[1])
    /\ \A k \in 1 .. Len(cards) - 1 : RankIndex(cards[k + 1]) = RankIndex(cards[k]) + 1
PairShaped(cards) ==
    /\ Len(cards) = 2
    /\ RankIndex(cards[1]) = RankIndex(cards[2])
Shaped(meld) ==
    IF meld.type = "set" THEN SetShaped(meld.cards)
    ELSE IF meld.type = "run" THEN RunShaped(meld.cards)
    ELSE PairShaped(meld.cards)

\* C25: in every reachable state of a round every table set has 3 to 4
\* cards, all of one rank, with pairwise distinct suits; every table run has
\* at least 3 cards of one suit forming a gap-free ascending rank sequence
\* stored in ascending order; every table pair has exactly 2 same-rank
\* cards; any sequence of layoffs and auto-layoffs preserves this.
C25_MeldShape ==
    \A i \in Players : \A k \in DOMAIN game.players[i].melds :
        Shaped(game.players[i].melds[k])


\* The layoff tags a list of parsed cards carries: parseCardList returns
\* Card objects, and a Card has no tag
ParsedTags(parsed) == {}

\* C26: for every table meld, parsing its textual notation (Meld.toString:
\* the cards joined by '-', layoff cards bracketed) back with the card-list
\* parser reconstructs the same ordered sequence of cards and the same set
\* of layoff-tagged cards, including for melds that hold a layoff card.
C26_NotationRoundTrip ==
    LET same(meld, parsed) ==
            /\ ~parsed.null
            /\ parsed.cards = meld.cards
            /\ ParsedTags(parsed) = meld.layoffCards
        roundTrip(meld) == same(meld, ParseCardList(MeldToString(meld)))
    IN  \A i \in Players : \A k \in DOMAIN game.players[i].melds :
            roundTrip(game.players[i].melds[k])

\* The notation of the melds without a layoff card parses back to their cards
C26_PlainMeldsRoundTrip ==
    LET same(meld, parsed) == ~parsed.null /\ parsed.cards = meld.cards
        roundTrip(meld) == same(meld, ParseCardList(MeldToString(meld)))
    IN  \A i \in Players : \A k \in DOMAIN game.players[i].melds :
            game.players[i].melds[k].layoffCards = {} =>
                roundTrip(game.players[i].melds[k])


(***************************************************************************)
(* The meld finder of cli/ai.js on its own: every hand of distinct cards   *)
(* drawn from a few cards, in two orders.                                  *)
(***************************************************************************)
\* The cards the hands are drawn from: As 2s 3s 4s 5s, 7s 8s 9s, 3h 3c 3d
FinderCards ==
    {CardOf(0, 0), CardOf(1, 0), CardOf(2, 0), CardOf(3, 0), CardOf(4, 0),
     CardOf(6, 0), CardOf(7, 0), CardOf(8, 0),
     CardOf(2, 1), CardOf(2, 2), CardOf(2, 3)}
\* The largest hand tried
MaxFinderHand == 9

\* The cards of a set in ascending and in descending order
RECURSIVE Ascending(_)
Ascending(S) ==
    IF S = {} THEN <<>>
    ELSE LET least == CHOOSE c \in S : \A d \in S : c <= d
         IN  <<least>> \o Ascending(S \ {least})
Descending(S) == [k \in 1 .. Cardinality(S) |-> Ascending(S)[Cardinality(S) + 1 - k]]

FinderHands ==
    UNION {{Ascending(S), Descending(S)} :
              S \in {T \in SUBSET FinderCards : Cardinality(T) <= MaxFinderHand}}

\* A client before any game, the hand to search in selectedCards
FinderInit ==
    /\ game = NewGame
    /\ rng = 0
    /\ gamePhase = "meld"
    /\ selectedCards \in FinderHands
    /\ timers = <<>>
    /\ modal = {}
    /\ offered = <<>>
    /\ user = [draw |-> "stock", discard |-> "first", meld |-> TRUE, pick |-> 1]
    /\ last = Result("select")
    /\ turnDraws = 0

\* findAllRuns(hand), findAllSets(hand), findAllPotentialMelds(hand)
FindRuns ==
    /\ last' = [Result("findAllRuns") EXCEPT
                   !.cards = FindAllRuns(selectedCards), !.ok = TRUE]
    /\ UNCHANGED <<game, rng, gamePhase, selectedCards, timers, modal, offered,
                   user, turnDraws>>
FindSets ==
    /\ last' = [Result("findAllSets") EXCEPT
                   !.cards = FindAllSets(selectedCards), !.ok = TRUE]
    /\ UNCHANGED <<game, rng, gamePhase, selectedCards, timers, modal, offered,
                   user, turnDraws>>
FindMelds ==
    /\ last' = [Result("findAllPotentialMelds") EXCEPT
                   !.cards = FindAllPotentialMelds(selectedCards), !.ok = TRUE]
    /\ UNCHANGED <<game, rng, gamePhase, selectedCards, timers, modal, offered,
                   user, turnDraws>>

FinderNext == FindRuns \/ FindSets \/ FindMelds

FinderSpec == FinderInit /\ [][FinderNext]_vars

\* The maximal consecutive same-suit sequences of at least 3 cards of a set
\* of cards, each as the set of its cards
MaximalRuns(S) ==
    LET has(suit, rank) == rank \in 0 .. NumRanks - 1 /\ CardOf(rank, suit) \in S
        spans == {sp \in (0 .. NumSuits - 1) \X (0 .. NumRanks - 1) \X (0 .. NumRanks - 1) :
                     /\ sp[3] - sp[2] + 1 >= 3
                     /\ \A r \in sp[2] .. sp[3] : has(sp[1], r)
                     /\ ~has(sp[1], sp[2] - 1)
                     /\ ~has(sp[1], sp[3] + 1)}
    IN  {{CardOf(r, sp[1]) : r \in sp[2] .. sp[3]} : sp \in spans}

\* The cards of each rank held 3 or 4 times
FullRanks(S) ==
    LET ofRank(r) == {c \in S : RankIndex(c) = r}
    IN  {ofRank(r) : r \in {q \in 0 .. NumRanks - 1 : Cardinality(ofRank(q)) \in {3, 4}}}

\* C27: for every hand of distinct cards findAllPotentialMelds returns
\* exactly one meld per maximal consecutive same-suit sequence of length at
\* least 3 and exactly one set per rank held 3 or 4 times (a 5-card run is
\* one meld of length 5, four of a rank one set of 4), and every returned
\* meld classifies as valid.  (The finder works on filtered copies of the
\* hand; it is a function of the hand.)
C27_MeldFinder ==
    LET found(melds) ==
            /\ {Range(melds[k]) : k \in DOMAIN melds}
                   = MaximalRuns(Range(selectedCards)) \cup FullRanks(Range(selectedCards))
            /\ Len(melds)
                   = Cardinality(MaximalRuns(Range(selectedCards)))
                     + Cardinality(FullRanks(Range(selectedCards)))
            /\ \A k \in DOMAIN melds :
                   /\ IsValid(NewMeld(melds[k], 0))
                   /\ Len(melds[k]) = Cardinality(Range(melds[k]))
            /\ last.op = "findAllPotentialMelds" => last.cards = melds
    IN  /\ found(FindAllPotentialMelds(selectedCards))
        /\ FindAllPotentialMelds(<<CardOf(4, 0), CardOf(0, 0), CardOf(3, 0), CardOf(1, 0),
                                   CardOf(2, 0)>>)
               = <<<<CardOf(0, 0), CardOf(1, 0), CardOf(2, 0), CardOf(3, 0), CardOf(4, 0)>>>>
        /\ FindAllPotentialMelds(<<CardOf(2, 3), CardOf(2, 0), CardOf(2, 2), CardOf(2, 1)>>)
               = <<<<CardOf(2, 3), CardOf(2, 0), CardOf(2, 2), CardOf(2, 1)>>>>

\* The finder has returned a run of 5 cards and a set of 4 from a hand of 9
C27_LongRunAndFullSet ==
    /\ last.op = "findAllPotentialMelds"
    /\ Len(selectedCards) = 9
    /\ Len(last.cards) = 2
    /\ Len(last.cards[1]) = 5
    /\ Len(last.cards[2]) = 4


\* The settlement g -> h has appended one record, of the round that was
\* current, and has counted the round
OneRecordAppended(g, h) ==
    /\ Len(h.scoreHistory) = Len(g.scoreHistory) + 1
    /\ SubSeq(h.scoreHistory, 1, Len(g.scoreHistory)) = g.scoreHistory
    /\ Last(h.scoreHistory).round = g.roundNumber
    /\ h.roundNumber = g.roundNumber + 1

\* C28: every settlement (endRound or endRoundStalemate) appends exactly one
\* record to the score history, carrying the round number that was current,
\* and increments the round number by exactly one; hence in every reachable
\* state the history length equals roundNumber - 1 and getTotalScores equals
\* the per-player sum of the recorded round scores.
C28_HistoryAndRounds ==
    LET settled(res) ==
            /\ OneRecordAppended(game, res.game)
            /\ Last(res.game.scoreHistory).scores = res.scores
    IN  /\ Fires("endRoundFlow") => settled(EndRound(game, rng))
        /\ Fires("stalemateFlow") => settled(EndRoundStalemate(game))
        /\ Len(game.scoreHistory) = game.roundNumber - 1
        /\ \A k \in DOMAIN game.scoreHistory : game.scoreHistory[k].round = k
        /\ \A i \in Players :
               GetTotalScores(game)[i]
                   = SumSeq([k \in DOMAIN game.scoreHistory |->
                                game.scoreHistory[k].scores[i]])

\* Two rounds have been settled, a player scoring in both
C28_TwoRoundsSettled ==
    /\ JustSettled
    /\ Len(game.scoreHistory) >= 2
    /\ \E i \in Players :
           /\ game.scoreHistory[1].scores[i] > 0
           /\ game.scoreHistory[2].scores[i] > 0


\* The counters of an evolving upgrade after a settlement: one more win for
\* an owner who has won, one more loss for an owner who has not, and no
\* change for a player who does not own the upgrade
Tracked(owns, won, wins, losses, winsAfter, lossesAfter) ==
    /\ winsAfter = wins + (IF owns /\ won THEN 1 ELSE 0)
    /\ lossesAfter = losses + (IF owns /\ ~won THEN 1 ELSE 0)

\* The settlement g -> h has tracked both upgrades for every player
EvoTracked(g, h, winner) ==
    \A i \in Players :
        /\ Tracked("evo_scale" \in Range(g.players[i].upgrades), i = winner,
                   g.players[i].evoScaleWins, g.players[i].evoScaleLosses,
                   h.players[i].evoScaleWins, h.players[i].evoScaleLosses)
        /\ Tracked("evo_base" \in Range(g.players[i].upgrades), i = winner,
                   g.players[i].evoBaseWins, g.players[i].evoBaseLosses,
                   h.players[i].evoBaseWins, h.players[i].evoBaseLosses)

\* C29: at each settlement an owner of evo_scale (resp. evo_base) has
\* exactly one of the corresponding wins/losses counters incremented by one:
\* wins if that player is the round's winner, losses otherwise, and losses
\* for every owner on a stalemate; the players who do not own the upgrade
\* have both counters unchanged.
C29_EvoTracking ==
    LET won(res) == EvoTracked(game, res.game, Current(game))
        stale(res) == EvoTracked(game, res.game, 0)
    IN  /\ Fires("endRoundFlow") => won(EndRound(game, rng))
        /\ Fires("stalemateFlow") => stale(EndRoundStalemate(game))

\* An owner of an evolving upgrade has won a round, and another owner has lost it
C29_OwnerWon ==
    /\ last.op = "endRound"
    /\ \/ /\ HasUpgrade(game.players[last.actor], "evo_scale")
          /\ game.players[last.actor].evoScaleWins > 0
       \/ /\ HasUpgrade(game.players[last.actor], "evo_base")
          /\ game.players[last.actor].evoBaseWins > 0
    /\ \E i \in Players \ {last.actor} :
           game.players[i].evoScaleLosses + game.players[i].evoBaseLosses > 0


\* The largest number of upgrades asked for
MaxOffer == 8

\* The catalog upgrades a player does not own
NotOwned(owned) == Range(UpgradeIds) \ Range(owned)

\* C30: getRandomUpgrades(N, ownedIds) returns min(N, number of catalog
\* upgrades not in ownedIds) upgrades, pairwise distinct, none of which is in
\* ownedIds; so a player is never offered an upgrade the player owns.
C30_UpgradeOffering ==
    LET drawn(count, owned, opts) ==
            /\ Len(opts.upgrades)
                   = (IF count < Cardinality(NotOwned(owned))
                      THEN count ELSE Cardinality(NotOwned(owned)))
            /\ NoDuplicates(opts.upgrades)
            /\ Range(opts.upgrades) \subseteq NotOwned(owned)
    IN  /\ \A i \in Players : \A count \in 0 .. MaxOffer :
               drawn(count, game.players[i].upgrades,
                     GetRandomUpgrades(count, game.players[i].upgrades, rng))
        /\ "upgrade" \in modal =>
               /\ Range(offered) \cap Range(Human.upgrades) = {}
               /\ NoDuplicates(offered)
               /\ Len(offered) = Min(3, Cardinality(NotOwned(Human.upgrades)))

\* The upgrades are offered to a human who owns some already
C30_OfferedToOwner ==
    /\ "upgrade" \in modal
    /\ Len(offered) = 3
    /\ Len(Human.upgrades) >= 2


\* The number of places of the game that hold the card
RECURSIVE InMelds(_, _)
InMelds(melds, c) ==
    IF Len(melds) = 0 THEN 0
    ELSE Occurrences(Head(melds).cards, c) + InMelds(Tail(melds), c)
Places(g, c) ==
    Occurrences(g.stock, c) + Occurrences(g.discardPile, c)
    + SumSeq([i \in Players |-> Occurrences(g.players[i].hand, c)])
    + SumSeq([i \in Players |-> InMelds(g.players[i].melds, c)])

\* No card of the game is in two places
NoCardTwice(g) == \A c \in Cards : Places(g, c) <= 1

\* C31: no card is ever in two places: in every reachable state of a round,
\* the AI turns that submit every meld returned by findAllPotentialMelds to
\* createMeld included, each card occurs at most once across the stock, the
\* discard pile, all hands and all table melds, and every card of a newly
\* created meld was removed from the current player's hand by that
\* createMeld.
C31_NoCardTwice ==
    LET removed(sel, res) ==
            res.success =>
                /\ Len(res.game.players[Current(game)].hand)
                       = Len(GetCurrentPlayer(game).hand) - Len(sel)
                /\ NoCardTwice(game) => NoCardTwice(res.game)
    IN  /\ NoCardTwice(game)
        /\ game.roundActive =>
               \A sel \in MeldInputs(game) : removed(sel, CreateMeld(game, sel))


\* The player with wildfire available iff no meld was made in the round
FirstMeldOnly(p) == [p EXCEPT !.wildfireAvailable = (p.meldCount = 0)]

\* C32: wildfire is one-time per round: for a player owning wildfire the x5
\* factor is applied to the first successful meld creation of each round
\* and to no other meld or layoff of that round; the available flag is false
\* after that meld and true again after the next startNewRound.
C32_WildfireOncePerRound ==
    LET before == GetCurrentPlayer(game)
        melded(sel, res) ==
            (res.success /\ HasUpgrade(before, "wildfire")) =>
                /\ res.finalScore = MeldScore(FirstMeldOnly(before), sel)
                /\ ~res.game.players[Current(game)].wildfireAvailable
        laidOff(card, res) ==
            (res.success /\ HasUpgrade(before, "wildfire")) =>
                /\ res.finalScore = LayoffScore(before, card)
                /\ res.game.players[Current(game)].wildfireAvailable
                       = before.wildfireAvailable
        started(start) ==
            \A i \in Players :
                HasUpgrade(game.players[i], "wildfire") =>
                    start.game.players[i].wildfireAvailable
    IN  /\ \A i \in Players :
               HasUpgrade(game.players[i], "wildfire") =>
                   game.players[i].wildfireAvailable = (game.players[i].meldCount = 0)
        /\ game.roundActive =>
               /\ \A sel \in MeldInputs(game) : melded(sel, CreateMeld(game, sel))
               /\ \A card \in Range(before.hand) : \A meldIndex \in MeldIndices(game) :
                      laidOff(card, Layoff(game, card, meldIndex))
        /\ ~game.roundActive => started(StartNewRound(game, rng))

\* An owner of wildfire has made a second meld in a round
C32_SecondMeldOfOwner ==
    /\ last.op \in {"createMeld", "playAITurn"}
    /\ \E i \in Players :
           /\ HasUpgrade(game.players[i], "wildfire")
           /\ game.players[i].meldCount >= 2
           /\ ~game.players[i].wildfireAvailable


\* The combo bonus due to a player whose action makes the counter count
ComboDue(p, count) ==
    IF HasUpgrade(p, "combo_master") /\ count % 3 = 0
    THEN RoundHalfUp(FMul(Whole(50), p.upgradeMultipliers.all))
    ELSE 0

TableSize(g) == SumSeq([i \in Players |-> Len(g.players[i].melds)])
MeldsBefore(g, i) == SumSeq([j \in 1 .. i - 1 |-> Len(g.players[j].melds)])

\* The place <<player, index>> of the meld with the index in the table's
\* order: the melds of the first player first
PlaceOf(g, meldIndex) ==
    LET i == CHOOSE j \in Players :
                 /\ MeldsBefore(g, j) <= meldIndex
                 /\ meldIndex < MeldsBefore(g, j) + Len(g.players[j].melds)
    IN  <<i, meldIndex - MeldsBefore(g, i) + 1>>

\* The player but for the melds
Apart(p) == [p EXCEPT !.melds = <<>>]

\* C34: a layoff may target any table meld, own or opponent's, addressed by
\* its index in getAllMelds: on success the card leaves the current player's
\* hand and joins that meld tagged as a layoff card, the score and the layoff
\* counter go to the acting player only, and the meld's owner and every other
\* player's points and counters are unchanged; an index below 0 or at least
\* the number of table melds is rejected.
C34_LayoffOntoAnyMeld ==
    LET actor == Current(game)
        before == GetCurrentPlayer(game)
        joined(card, place, res, after) ==
            /\ Len(after.hand) = Len(before.hand) - 1
            /\ Occurrences(after.hand, card) = Occurrences(before.hand, card) - 1
            /\ IsPermutation(Append(game.players[place[1]].melds[place[2]].cards, card),
                             res.game.players[place[1]].melds[place[2]].cards)
            /\ card \in res.game.players[place[1]].melds[place[2]].layoffCards
            /\ res.game.players[place[1]].melds[place[2]].owner
                   = game.players[place[1]].melds[place[2]].owner
            /\ after.points = before.points + res.finalScore + res.comboBonus
            /\ after.layoffCount = before.layoffCount + 1
            /\ \A i \in Players \ {actor} :
                   Apart(res.game.players[i]) = Apart(game.players[i])
            /\ \A i \in Players : \A k \in DOMAIN game.players[i].melds :
                   <<i, k>> # place =>
                       res.game.players[i].melds[k] = game.players[i].melds[k]
        laidOff(card, meldIndex, res) ==
            IF meldIndex < 0 \/ meldIndex >= TableSize(game)
            THEN ~res.success /\ res.game = game
            ELSE /\ res.success = CanLayoff(MeldAt(game, PlaceOf(game, meldIndex)), card)
                 /\ res.success =>
                        joined(card, PlaceOf(game, meldIndex), res, res.game.players[actor])
                 /\ ~res.success => res.game = game
    IN  game.roundActive =>
            \A card \in Range(before.hand) : \A meldIndex \in (0 - 1) .. TableSize(game) :
                laidOff(card, meldIndex, Layoff(game, card, meldIndex))

\* The human has laid a card off onto a meld of an opponent
C34_OntoOpponentsMeld ==
    /\ last.op = "layoff"
    /\ last.ok
    /\ last.meldIndex >= 0
    /\ last.meldIndex < TableSize(game)
    /\ PlaceOf(game, last.meldIndex)[1] # last.actor
    /\ last.card \in MeldAt(game, PlaceOf(game, last.meldIndex)).layoffCards


\* The Catchup Bonus lines of a list of multipliers
CatchupLines(bs) == SelectSeq(bs, LAMBDA b : b.name = "Catchup Bonus")

\* The settlement applies the multiplier each player carried into it, as a
\* Catchup Bonus line iff it is greater than 1, and startNewRound keeps it
C35_Settlement ==
    LET applied(carried, details) ==
            /\ CatchupLines(details.multipliers)
                   = (IF carried[1] > carried[2]
                      THEN <<[name |-> "Catchup Bonus", value |-> carried]>> ELSE <<>>)
            /\ details.finalScore
                   = RoundTimes(details.roundPoints + SumValues(details.flatBonuses),
                                TimesAll(details.multipliers))
        settled(res) ==
            \A i \in Players :
                /\ applied(game.players[i].carryoverMultiplier, res.bonusDetails[i])
                /\ res.scores[i] = res.bonusDetails[i].finalScore
        started(start) ==
            \A i \in Players :
                start.game.players[i].carryoverMultiplier
                    = game.players[i].carryoverMultiplier
    IN  /\ Fires("endRoundFlow") => settled(EndRound(game, rng))
        /\ Fires("stalemateFlow") => settled(EndRoundStalemate(game))
        /\ ~game.roundActive => started(StartNewRound(game, rng))

\* A step changes a carryover multiplier
CarryoverChanges ==
    \E i \in Players :
        game'.players[i].carryoverMultiplier # game.players[i].carryoverMultiplier

\* C35: the catchup multiplier computed at the settlement of round k is
\* applied as a multiplier in the settlement of round k+1 (as a Catchup
\* Bonus line iff it is greater than 1.0) and only there: startNewRound does
\* not reset it, and it is overwritten only after round k+1's score for that
\* player has been computed.
C35_CatchupCarried ==
    /\ []C35_Settlement
    /\ [][CarryoverChanges => (EndRoundFlow \/ StalemateFlow)]_vars

\* A round has been settled in which a player who did not win has more than
\* the round's points times the multipliers of the round's own bonuses
C35_CatchupApplied ==
    /\ last.op = "endRound"
    /\ \E i \in Players \ {last.actor} :
           /\ game.players[i].points > 0
           /\ ~game.players[i].emptiedHandEarly
           /\ last.cards[i]
                  > RoundTimes(game.players[i].points,
                               TimesAll(CalculateRoundEndBonuses(
                                   [game.players[i] EXCEPT !.carryoverMultiplier = <<1, 1>>],
                                   FALSE, 0).multipliers))


\* C36: each round is settled exactly once: with the client's delayed
\* callbacks (endRoundFlow and stalemateFlow, scheduled after a win or a
\* stalemate result) interleaved with further clicks on the stock or the
\* discard pile, exactly one of endRound / endRoundStalemate runs for the
\* round: a settlement callback runs only on a round not yet settled.
C36_SettledOnce ==
    (Fires("endRoundFlow") \/ Fires("stalemateFlow")) => game.roundActive


\* C37: when endRound runs, the player it records as winner (the current
\* player) has an empty hand: between the action that returned
\* playerWon = true and the delayed call of endRound no draw, meld, layoff
\* or discard changes a hand, so the hand is still empty when the callback
\* is about to run.
C37_WinnerHandEmpty ==
    Fires("endRoundFlow") => Len(GetCurrentPlayer(game).hand) = 0


\* C38: the game ends after exactly 5 settled rounds: continuing after a
\* settlement offers upgrades while roundNumber is at most 5 and shows the
\* game-end report once roundNumber exceeds 5; when the report is shown
\* five rounds have been settled (five history records, roundNumber 6),
\* and no upgrade is offered or applied and no round started after it.
C38_GameEndsAfterFive ==
    /\ last.op = "continueAfterRound" =>
           IF game.roundNumber > MaxRounds
           THEN "gameEnd" \in modal /\ "upgrade" \notin modal
           ELSE "upgrade" \in modal /\ "gameEnd" \notin modal
    /\ "gameEnd" \in modal =>
           /\ Len(game.scoreHistory) = MaxRounds
           /\ game.roundNumber = MaxRounds + 1
           /\ ~game.roundActive
           /\ "upgrade" \notin modal
           /\ offered = <<>>


(***************************************************************************)
(* Round termination.  The callbacks the client schedules run (the event   *)
(* loop fires every timer), and the human goes on playing: a turn that can *)
(* draw from the stock draws, a turn that can discard discards.  These are *)
(* the weak fairness conditions WF_vars(A) of the three actions, with      *)
(* ENABLED <<A>>_vars written out as the action's guard.                   *)
(***************************************************************************)
CanDrawStock ==
    /\ modal = {}
    /\ gamePhase = "draw"
    /\ IsHumanTurn
    /\ DrawsFrom("stock")
    /\ DrawFromStock(game, rng).stalemate => Len(timers) < MaxPending
CanDiscard ==
    /\ modal = {}
    /\ gamePhase = "meld"
    /\ IsHumanTurn
    /\ Len(Human.hand) > 0
    /\ user.meld => (HumanMelds(Human) = <<>> /\ LayoffOptions(game, Human) = {})
    /\ Discard(game, DiscardChoice(Human)).playerWon => Len(timers) < MaxPending
FairSpec ==
    /\ Init /\ [][Next]_vars
    /\ (<>[]CanDrawStock) => []<><<HandleDrawStock>>_vars
    /\ (<>[]CanDiscard) => []<><<HandleDiscard>>_vars
    /\ (<>[]Fires("playAITurn")) => []<><<PlayAITurn>>_vars

\* The human's turns draw from the stock and then discard, as the turns of
\* the AI players do
StockTurns == user.draw = "stock" /\ ~user.meld
\* A round has just been dealt
RoundStarted == last.op \in {"startNewGame", "selectUpgrade"}
\* An action has reported the round's end: a win or a stalemate
RoundOver == last.playerWon \/ last.stalemate
\* The stock draws the round still allows: the cards of the stock and one
\* deck at most for each reshuffle left
StockVariant(g) == Len(g.stock) + (MaxReshuffles - g.reshuffleCount) * DeckSize
\* The step is a successful draw from the stock
StockDrawn ==
    /\ last'.op \in {"drawFromStock", "playAITurn"}
    /\ last'.ok
\* C39: round termination: in a round in which every turn draws from the
\* stock and then discards (as every AI turn does), the round eventually
\* reaches a win or a stalemate; the number of successful stock draws in one
\* round is bounded because at most 2 reshuffles occur: the draws left never
\* go below zero, never grow within a round and every successful draw from
\* the stock takes one away at least.
C39_RoundTerminates ==
    /\ (StockTurns /\ RoundStarted) ~> RoundOver
    /\ [](game.reshuffleCount <= MaxReshuffles /\ StockVariant(game) >= 0)
    /\ [][last'.op # "selectUpgrade" =>
              /\ StockVariant(game') <= StockVariant(game)
              /\ StockDrawn => StockVariant(game') < StockVariant(game)]_vars

\* A round of stock draws has ended in a stalemate: the stock is empty and
\* both reshuffles are used up
C39_StockExhausted ==
    /\ StockTurns
    /\ last.stalemate
    /\ StockVariant(game) = 0

=============================================================================
